---- MODULE Spec2Model ----
(***************************************************************************)
(* Model of jax/_src/cudnn/fused_attention_stablehlo.py: the cuDNN fused   *)
(* attention operator (validation, backend configuration, custom-call      *)
(* emission, differentiation rule, sharding partitioner).                  *)
(*                                                                         *)
(* Python values are modelled as follows.                                  *)
(*   - an array is a record [shape, dtype]; None is NoneT;                 *)
(*   - an enum member and an int are tagged records [kind, val], so that   *)
(*     Python's == between an Enum member and an int is False (PyEq);      *)
(*   - a partition label is a string, the label None is "None";            *)
(*   - a raised exception is a string "<ExceptionType>: <what>", and a     *)
(*     call that returns normally yields "ok".                             *)
(***************************************************************************)
EXTENDS Integers, Sequences, FiniteSets, TLC

VARIABLES
  pc,      \* position of the caller thread inside dot_product_attention
  args,    \* the arguments of the current dot_product_attention call
  loc,     \* the locals of the current call (layout, bias, variadic_args, ...)
  err,     \* the exception raised by the current call, or "none"
  binds,   \* the primitive binds issued so far by the current call
  calls,   \* the custom calls emitted so far by the lowerings
  chk,     \* a validator applied on its own: [fn, in, out]
  part     \* the partitioner: [pc, in, out, ...]

vars == <<pc, args, loc, err, binds, calls, chk, part>>
callVars == <<pc, args, loc, err, binds, calls>>

----------------------------------------------------------------------------
(* Bounds of the model *)

MaxExtent == 2     \* tensor extents of the validator inputs range over 1..MaxExtent

----------------------------------------------------------------------------
(* Program constants *)

MaxHeadDim == 128          \* H <= 128
HeadDimMultiple == 8       \* H % 8 == 0
MinCudnnVersion == 8904    \* cudnn_version < 8904

----------------------------------------------------------------------------
(* Python values *)

NoneT == [shape |-> <<>>, dtype |-> "NoneType"]
Tensor(shape, dtype) == [shape |-> shape, dtype |-> dtype]
IsNone(x) == x.dtype = "NoneType"

IntObj(n) == [kind |-> "int", val |-> n]
\* class AttentionLayout(enum.Enum): BTNH = 0, BNTH = 1
BTNH == [kind |-> "AttentionLayout", val |-> 0]
BNTH == [kind |-> "AttentionLayout", val |-> 1]
\* a == b between Python objects: an enum.Enum member equals only itself
PyEq(a, b) == a.kind = b.kind /\ a.val = b.val
\* member.value
EnumValue(member) == IntObj(member.val)

Null == "null"
\* no validator is being applied on its own
NoCheck == [fn |-> "none", in |-> Null, out |-> "none"]
\* the partitioner has not been invoked
NoPart == [pc |-> "off"]

----------------------------------------------------------------------------
(* check_layout *)

check_eq_first_two(a, b, c) == a = b

\* the nested check_eq of check_layout: TRUE iff it does not raise
check_eq(a, b, c) == a = b /\ b = c

check_seqlen_any_length(seqlen, qB, who) ==
  IF IsNone(seqlen) THEN "ok"
  ELSE IF seqlen.dtype # "int32" THEN "ValueError: " \o who \o " dtype"
  ELSE IF Len(seqlen.shape) # 1 THEN "ValueError: " \o who \o " rank"
  ELSE "ok"

\* the seqlen checks of check_layout, for q_seqlen (who = "q_seqlen") and
\* kv_seqlen (who = "kv_seqlen"): the exception raised, or "ok"
check_seqlen(seqlen, qB, who) ==
  IF IsNone(seqlen) THEN "ok"
  ELSE IF seqlen.dtype # "int32" THEN "ValueError: " \o who \o " dtype"
  ELSE IF Len(seqlen.shape) # 1 THEN "ValueError: " \o who \o " rank"
  ELSE IF seqlen.shape[1] # qB THEN "ValueError: " \o who \o " batch"
  ELSE "ok"

\* check_layout(query, key, value, bias, q_seqlen, kv_seqlen, layout):
\* the exception raised, or "ok"
check_layout(query, key, value, bias, q_seqlen, kv_seqlen, layout) ==
  LET q_rank == Len(query.shape)
      k_rank == Len(key.shape)
      v_rank == Len(value.shape)
  IN
  IF q_rank # 4 THEN "ValueError: Q rank"
  ELSE IF ~check_eq(q_rank, k_rank, v_rank) THEN "ValueError: QKV rank"
  ELSE IF query.dtype \notin {"bfloat16", "float16"}
       THEN "NotImplementedError: Q dtype"
  ELSE IF ~check_eq(query.dtype, key.dtype, value.dtype)
       THEN "ValueError: QKV dtype"
  ELSE IF ~PyEq(layout, BNTH) /\ ~PyEq(layout, BTNH) THEN "AssertionError"
  ELSE
    LET bnth == PyEq(layout, BNTH)
        qB == query.shape[1]
        qN == IF bnth THEN query.shape[2] ELSE query.shape[3]
        qT == IF bnth THEN query.shape[3] ELSE query.shape[2]
        qH == query.shape[4]
        kB == key.shape[1]
        kN == IF bnth THEN key.shape[2] ELSE key.shape[3]
        kS == IF bnth THEN key.shape[3] ELSE key.shape[2]
        kH == key.shape[4]
        vB == value.shape[1]
        vN == IF bnth THEN value.shape[2] ELSE value.shape[3]
        vS == IF bnth THEN value.shape[3] ELSE value.shape[2]
        vH == value.shape[4]
    IN
    IF ~check_eq(qB, kB, vB) THEN "ValueError: QKV batch"
    ELSE IF ~check_eq(qH, kH, vH) THEN "ValueError: QKV dim_per_head"
    ELSE IF kN # vN THEN "ValueError: KV heads"
    ELSE IF kS # vS THEN "ValueError: KV seq"
    ELSE IF ~IsNone(bias) /\ Len(bias.shape) # 4 THEN "ValueError: unpack bias.shape"
    ELSE IF ~IsNone(bias) /\ (bias.shape[3] # qT \/ bias.shape[4] # vS)
         THEN "ValueError: Bias seq"
    ELSE IF check_seqlen(q_seqlen, qB, "q_seqlen") # "ok"
         THEN check_seqlen(q_seqlen, qB, "q_seqlen")
    ELSE check_seqlen(kv_seqlen, qB, "kv_seqlen")

----------------------------------------------------------------------------
(* Inputs of the validators *)

Extents == 1..MaxExtent
Shapes4 == {<<a, b, c, d>> : a \in Extents, b \in Extents, c \in Extents, d \in Extents}
\* s with at most one axis changed
Perturb1(s) == {s} \cup {[s EXCEPT ![i] = e] : i \in 1..Len(s), e \in Extents}
Layouts == {BTNH, BNTH}
FloatDtypes == {"bfloat16", "float16", "float32"}
RankShapes == {<<1, 1, 1>>, <<1, 1, 1, 1>>, <<1, 1, 1, 1, 1>>}
SeqlenOpts ==
  {NoneT} \cup
  {Tensor(s, d) : s \in {<<>>, <<1, 1>>} \cup {<<n>> : n \in Extents},
                  d \in {"int32", "int64"}}
\* the key shape for a query shape with the sequence axis of `layout` set to S
KeyShapeOf(qshape, layout, S) ==
  IF PyEq(layout, BNTH) THEN [qshape EXCEPT ![3] = S] ELSE [qshape EXCEPT ![2] = S]

----------------------------------------------------------------------------
(* check_layout applied to the bounded inputs *)

LayoutInput(q, k, v, b, qs, kvs, l) ==
  [query |-> q, key |-> k, value |-> v, bias |-> b,
   q_seqlen |-> qs, kv_seqlen |-> kvs, layout |-> l]

\* no dot_product_attention call is in progress
CallOff ==
  /\ pc = "off" /\ args = Null /\ loc = Null /\ err = "none"
  /\ binds = <<>> /\ calls = <<>>

Pending(fn, in) == [fn |-> fn, in |-> in, out |-> "pending"]

InitLayout ==
  /\ \/ \* shapes of query, key and value
        \E q \in Shapes4, k \in Shapes4, l \in Layouts : \E v \in Perturb1(k) :
          chk = Pending("check_layout",
                  LayoutInput(Tensor(q, "bfloat16"), Tensor(k, "bfloat16"),
                              Tensor(v, "bfloat16"), NoneT, NoneT, NoneT, l))
     \/ \* dtypes
        \E qd \in FloatDtypes, kd \in FloatDtypes, vd \in FloatDtypes, l \in Layouts :
          chk = Pending("check_layout",
                  LayoutInput(Tensor(<<1, 1, 1, 1>>, qd), Tensor(<<1, 1, 1, 1>>, kd),
                              Tensor(<<1, 1, 1, 1>>, vd), NoneT, NoneT, NoneT, l))
     \/ \* ranks
        \E q \in RankShapes, k \in RankShapes, v \in RankShapes, l \in Layouts :
          chk = Pending("check_layout",
                  LayoutInput(Tensor(q, "float16"), Tensor(k, "float16"),
                              Tensor(v, "float16"), NoneT, NoneT, NoneT, l))
     \/ \* bias
        \E q \in Shapes4, b \in Shapes4 \cup {<<1, 1>>}, S \in Extents, l \in Layouts :
          chk = Pending("check_layout",
                  LayoutInput(Tensor(q, "float16"),
                              Tensor(KeyShapeOf(q, l, S), "float16"),
                              Tensor(KeyShapeOf(q, l, S), "float16"),
                              Tensor(b, "float16"), NoneT, NoneT, l))
     \/ \* sequence lengths
        \E n \in Extents, qs \in SeqlenOpts, kvs \in SeqlenOpts, l \in Layouts :
          chk = Pending("check_layout",
                  LayoutInput(Tensor(<<n, 1, 1, 1>>, "bfloat16"),
                              Tensor(<<n, 1, 1, 1>>, "bfloat16"),
                              Tensor(<<n, 1, 1, 1>>, "bfloat16"), NoneT, qs, kvs, l))
  /\ CallOff
  /\ part = NoPart

ApplyCheckLayout ==
  /\ chk.fn = "check_layout"
  /\ chk.out = "pending"
  /\ chk' = [chk EXCEPT !.out =
       check_layout(chk.in.query, chk.in.key, chk.in.value, chk.in.bias,
                    chk.in.q_seqlen, chk.in.kv_seqlen, chk.in.layout)]
  /\ UNCHANGED <<callVars, part>>

NextLayout == ApplyCheckLayout

SpecLayout == InitLayout /\ [][NextLayout]_vars

----------------------------------------------------------------------------
(* check_is_flash_attention *)

flash_supported_either_even(T, S, H, has_bias, is_training) ==
  (H <= MaxHeadDim /\ H % HeadDimMultiple = 0) /\
  (~is_training \/ ~has_bias \/ (T % 2 = 0 \/ S % 2 = 0))

\* the condition whose negation raises NotImplementedError
flash_supported(T, S, H, has_bias, is_training) ==
  (H <= MaxHeadDim /\ H % HeadDimMultiple = 0) /\
  (~is_training \/ ~has_bias \/ (T % 2 = 0 /\ S % 2 = 0))

\* check_is_flash_attention(query, key, layout: int, cudnn_version, has_bias,
\* is_training): the exception raised, or "ok"
check_is_flash_attention(query, key, layout, cudnn_version, has_bias, is_training) ==
  LET bnth == PyEq(layout, EnumValue(BNTH))
      T == IF bnth THEN query.shape[3] ELSE query.shape[2]
      H == query.shape[4]
      S == IF bnth THEN key.shape[3] ELSE key.shape[2]
  IN
  IF ~flash_supported(T, S, H, has_bias, is_training)
  THEN "NotImplementedError: unsupported sequence length or head dim"
  ELSE IF cudnn_version < MinCudnnVersion THEN "RuntimeError: cuDNN version"
  ELSE "ok"

\* head sizes around the limits of check_is_flash_attention
HeadDims == {HeadDimMultiple, HeadDimMultiple + 4, MaxHeadDim - HeadDimMultiple,
             MaxHeadDim, MaxHeadDim + 1, MaxHeadDim + HeadDimMultiple}
CudnnVersions == {MinCudnnVersion - 1, MinCudnnVersion, MinCudnnVersion + 1}

----------------------------------------------------------------------------
(* Helpers of dot_product_attention *)

\* Python's None where an int is expected (sliding_window_length)
NoneObj == [kind |-> "NoneType", val |-> 0]

\* class MaskType(enum.Enum); the members are modelled by their names
MaskTypes == {"NO_MASK", "PADDING", "CAUSAL", "PADDING_CAUSAL", "ALIBI"}

convert_mask_type_to_string(mask_type) ==
  IF mask_type = "NO_MASK" THEN "NO_MASK"
  ELSE IF mask_type = "PADDING" THEN "PADDING"
  ELSE IF mask_type = "CAUSAL" THEN "CAUSAL"
  ELSE IF mask_type = "PADDING_CAUSAL" THEN "PADDING_CAUSAL"
  ELSE IF mask_type = "ALIBI" THEN "ALIBI"
  ELSE "ValueError: Unexpected mask type"

has_padding_only_padding(mask_type) == mask_type = "PADDING"
\* the variant that asks the sequence lengths of every masked call
has_padding_any_mask(mask_type) == mask_type # "NO_MASK"

has_padding(mask_type) == mask_type = "PADDING" \/ mask_type = "PADDING_CAUSAL"

\* should_export_dbias(bias_shape, query_shape, layout); the layout is compared
\* with AttentionLayout.BNTH.value, an int
should_export_dbias(bias_shape, query_shape, layout) ==
  LET b_B == bias_shape[1]
      b_N == bias_shape[2]
      q_N == IF PyEq(layout, EnumValue(BNTH)) THEN query_shape[2] ELSE query_shape[3]
  IN b_B = 1 /\ b_N = q_N

\* A float is modelled as sign * 2^exp (sign 0 is zero): the values of
\* get_large_negative_number exceed the integers of the model checker.
FloatZero == [sign |-> 0, exp |-> 0]
\* the Python int n = sign * 2^exp shifted left: n << k
Shl(n, k) == [n EXCEPT !.exp = @ + k]
MinusTwo == [sign |-> -1, exp |-> 1]
\* jnp.asarray(v, dtype): a power of two is exact up to the largest exponent
\* of the format (float16: 15, bfloat16: 127) and overflows to infinity above
AsArray(v, dtype) ==
  LET emax == IF dtype = "float16" THEN 15 ELSE 127
  IN IF v.sign # 0 /\ v.exp > emax THEN [sign |-> v.sign, exp |-> 9999] ELSE v

get_large_negative_number_swapped(dtype) ==
  IF dtype = "bfloat16" THEN [err |-> "none", val |-> AsArray(Shl(MinusTwo, 14), dtype)]
  ELSE IF dtype = "float16" THEN [err |-> "none", val |-> AsArray(Shl(MinusTwo, 40), dtype)]
  ELSE [err |-> "ValueError: Unsupported dtype for inputs.", val |-> FloatZero]

\* get_large_negative_number(dtype): [err, val]
get_large_negative_number(dtype) ==
  IF dtype = "bfloat16" THEN [err |-> "none", val |-> AsArray(Shl(MinusTwo, 40), dtype)]
  ELSE IF dtype = "float16" THEN [err |-> "none", val |-> AsArray(Shl(MinusTwo, 14), dtype)]
  ELSE [err |-> "ValueError: Unsupported dtype for inputs.", val |-> FloatZero]

\* A Python str is modelled as the sequence of its characters.
\* str.upper on the letters that occur in the layout strings of the model
UpperChar(c) ==
  CASE c = "b" -> "B" [] c = "t" -> "T" [] c = "n" -> "N" [] c = "h" -> "H"
    [] c = "s" -> "S" [] OTHER -> c
Upper(str) == [i \in 1..Len(str) |-> UpperChar(str[i])]
\* str.replace(old, new) for single characters
Replace(str, old, new) == [i \in 1..Len(str) |-> IF str[i] = old THEN new ELSE str[i]]

\* _normalize_layout(layout): [err, val]
_normalize_layout(layout) ==
  LET layout_upper == Upper(layout)
      name == Replace(layout_upper, "S", "T")
  IN IF layout_upper \in {<<"B", "S", "N", "H">>, <<"B", "N", "S", "H">>,
                          <<"B", "T", "N", "H">>, <<"B", "N", "T", "H">>}
     THEN [err |-> "none",
           val |-> IF name = <<"B", "T", "N", "H">> THEN BTNH ELSE BNTH]
     ELSE [err |-> "ValueError: Unsupported qkv_layout", val |-> BTNH]

\* bias.reshape((1,) * (4 - len(bias.shape)) + bias.shape)
Ones(n) == [i \in 1..n |-> 1]
ReshapeTo4D(shape) == (IF Len(shape) < 4 THEN Ones(4 - Len(shape)) ELSE <<>>) \o shape

\* the shape of a + b for two rank-4 arrays, <<>> when they do not broadcast
Broadcastable(a, b) == \A i \in 1..4 : a[i] = b[i] \/ a[i] = 1 \/ b[i] = 1
BroadcastShape(a, b) == [i \in 1..4 |-> IF a[i] = 1 THEN b[i] ELSE a[i]]

----------------------------------------------------------------------------
(* create_dot_product_attention_backend_config and the call targets *)

\* element_type_to_backend_config_type_mapping(dtype)
element_type_to_backend_config_type_mapping(dtype) ==
  IF dtype = "bfloat16" THEN "BF16"
  ELSE IF dtype = "float16" THEN "F16"
  ELSE "KeyError"

\* one entry of dims: ((lc, rc), (lb, rb))
Dim(lc, rc, lb, rb) == [lc |-> lc, rc |-> rc, lb |-> lb, rb |-> rb]
DimsBNTH ==
  << Dim(3, 3, <<0, 1>>, <<0, 1>>),   \* BMM1: BNTH,BNSH->BNTS
     Dim(3, 2, <<0, 1>>, <<0, 1>>),   \* BMM2: BNTS,BNSH->BNTH
     Dim(2, 2, <<0, 1>>, <<0, 1>>),   \* BMM1_grad_1: BNTS,BNTH->BNSH
     Dim(3, 2, <<0, 1>>, <<0, 1>>),   \* BMM1_grad_2: BNTS,BNSH->BNTH
     Dim(2, 2, <<0, 1>>, <<0, 1>>),   \* BMM2_grad_1: BNTS,BNTH->BNSH
     Dim(3, 3, <<0, 1>>, <<0, 1>>) >> \* BMM2_grad_2: BNTH,BNSH->BNTS
DimsBTNH ==
  << Dim(3, 3, <<0, 2>>, <<0, 2>>),   \* BMM1: BTNH,BSNH->BNTS
     Dim(3, 1, <<0, 1>>, <<0, 2>>),   \* BMM2: BNTS,BSNH->BTNH
     Dim(2, 1, <<0, 1>>, <<0, 2>>),   \* BMM1_grad_1: BNTS,BTNH->BSNH
     Dim(3, 1, <<0, 1>>, <<0, 2>>),   \* BMM1_grad_2: BNTS,BSNH->BTNH
     Dim(2, 1, <<0, 1>>, <<0, 2>>),   \* BMM2_grad_1: BNTS,BTNH->BSNH
     Dim(3, 3, <<0, 2>>, <<0, 2>>) >> \* BMM2_grad_2: BTNH,BSNH->BNTS
DotKeys ==
  << "bmm1_dot_dimension_numbers",
     "bmm2_dot_dimension_numbers",
     "bmm1_grad_gemm1_dot_dimension_numbers",
     "bmm1_grad_gemm2_dot_dimension_numbers",
     "bmm2_grad_gemm1_dot_dimension_numbers",
     "bmm2_grad_gemm2_dot_dimension_numbers" >>
\* the variant that writes the contracting axes of lhs and rhs swapped
DotNumberSwapped(d) ==
  [lhs_contracting_dimensions |-> <<ToString(d.rc)>>,
   rhs_contracting_dimensions |-> <<ToString(d.lc)>>,
   lhs_batch_dimensions |-> [i \in 1..Len(d.lb) |-> ToString(d.lb[i])],
   rhs_batch_dimensions |-> [i \in 1..Len(d.rb) |-> ToString(d.rb[i])]]

\* the value written for one key of fwd_dot_number / bwd_dot_number
DotNumber(d) ==
  [lhs_contracting_dimensions |-> <<ToString(d.lc)>>,
   rhs_contracting_dimensions |-> <<ToString(d.rc)>>,
   lhs_batch_dimensions |-> [i \in 1..Len(d.lb) |-> ToString(d.lb[i])],
   rhs_batch_dimensions |-> [i \in 1..Len(d.rb) |-> ToString(d.rb[i])]]
DotNumbersUnfiltered(dims, idxs) ==
  [key \in {DotKeys[i] : i \in 1..6} |->
     DotNumber(dims[CHOOSE i \in 1..6 : DotKeys[i] = key])]

\* fwd_dot_number (idx < 2) and bwd_dot_number (the rest) as dicts
DotNumbers(dims, idxs) ==
  [key \in {DotKeys[i] : i \in idxs} |->
     DotNumber(dims[CHOOSE i \in idxs : DotKeys[i] = key])]

\* create_dot_product_attention_backend_config(...): the dict that is
\* serialized with json.dumps
create_dot_product_attention_backend_config(batch, num_heads, seq_q, seq_kv, dtype, fmha_scale, seed, dropout_rate, mask_type, layout, sliding_window_length, is_bwd) ==
  LET swl == IF sliding_window_length = NoneObj THEN 0 ELSE sliding_window_length.val
      cudnn_fmha_backend_config ==
        [algorithm |->
           [algo_id |-> "0", math_type |-> "TENSOR_OP_MATH",
            tuning_knobs |-> [k \in {"17", "24"} |-> IF k = "17" THEN "1" ELSE "0"],
            is_cudnn_frontend |-> TRUE, workspace_size |-> "0"],
         fmha_scale |-> fmha_scale,
         dropout_rate |-> dropout_rate,
         intermediate_tensor_shape |->
           [element_type |-> element_type_to_backend_config_type_mapping(dtype),
            dimensions |-> <<ToString(batch), ToString(num_heads),
                             ToString(seq_q), ToString(seq_kv)>>,
            tuple_shapes |-> <<>>,
            layout |-> [minor_to_major |-> <<"3", "2", "1", "0">>],
            is_dynamic_dimension |-> <<FALSE, FALSE, FALSE, FALSE>>],
         seed |-> seed,
         is_flash_attention |-> TRUE,
         mask_type |-> convert_mask_type_to_string(mask_type),
         sliding_window_length |-> swl]
      dims == IF PyEq(layout, EnumValue(BNTH)) THEN DimsBNTH ELSE DimsBTNH
      fwd_dot_number == DotNumbers(dims, {1, 2})
      bwd_dot_number == DotNumbers(dims, {3, 4, 5, 6})
  IN [operation_queue_id |-> "0",
      wait_on_operation_queues |-> <<>>,
      cudnn_fmha_backend_config |->
        IF is_bwd THEN bwd_dot_number @@ cudnn_fmha_backend_config
        ELSE fwd_dot_number @@ cudnn_fmha_backend_config]

\* The call target is the concatenation of the parts of its name.
RECURSIVE Join(_)
Join(parts) == IF parts = <<>> THEN "" ELSE Head(parts) \o Join(Tail(parts))
\* mapping from (is_bwd, has_dropout, has_bias) to custom call name
_custom_name_maps ==
  [k \in BOOLEAN \X BOOLEAN \X BOOLEAN |->
     CASE k = <<FALSE, FALSE, FALSE>> -> <<"__cudnn$fmha", "Softmax">>
       [] k = <<FALSE, FALSE, TRUE>> -> <<"__cudnn$fmha", "ScaleBias", "Softmax">>
       [] k = <<FALSE, TRUE, FALSE>> -> <<"__cudnn$fmha", "Softmax", "Dropout">>
       [] k = <<FALSE, TRUE, TRUE>> ->
            <<"__cudnn$fmha", "ScaleBias", "Softmax", "Dropout">>
       [] k = <<TRUE, FALSE, FALSE>> -> <<"__cudnn$fmha", "Softmax", "Backward">>
       [] k = <<TRUE, FALSE, TRUE>> ->
            <<"__cudnn$fmha", "ScaleBias", "Softmax", "Backward">>
       [] k = <<TRUE, TRUE, FALSE>> ->
            <<"__cudnn$fmha", "Softmax", "Dropout", "Backward">>
       [] k = <<TRUE, TRUE, TRUE>> ->
            <<"__cudnn$fmha", "ScaleBias", "Softmax", "Dropout", "Backward">>]

get_custom_call_name_key_reversed(has_bias, has_dropout, is_bwd) ==
  _custom_name_maps[<<has_bias, has_dropout, is_bwd>>]

get_custom_call_name(has_bias, has_dropout, is_bwd) ==
  _custom_name_maps[<<is_bwd, has_dropout, has_bias>>]

----------------------------------------------------------------------------
(* Abstract evaluation and the CUDA lowerings *)

\* default_layouts(shape): range(len(shape) - 1, -1, -1)
default_layouts(shape) == [i \in 1..Len(shape) |-> Len(shape) - i]
TransposeDropped(shape, perm) == shape

\* hlo.transpose(x, perm): the result shape (perm is 0-based)
Transpose(shape, perm) == [i \in 1..Len(perm) |-> shape[perm[i] + 1]]

Operand(arg, t) == [arg |-> arg, t |-> t]
ResultType(name, shape, dtype, layout) ==
  [name |-> name, shape |-> shape, dtype |-> dtype, layout |-> layout]
Value(name, shape, dtype) == [name |-> name, shape |-> shape, dtype |-> dtype]

_dot_product_attention_fwd_abstract_input_dtype(query, key, layout, is_training) ==
  LET bnth == PyEq(layout, EnumValue(BNTH))
      B == query.shape[1]
      N == IF bnth THEN query.shape[2] ELSE query.shape[3]
      T == IF bnth THEN query.shape[3] ELSE query.shape[2]
  IN IF is_training
     THEN <<Value("output", query.shape, query.dtype),
            Value("softmax_stat", <<B, N, T>>, query.dtype)>>
     ELSE <<Value("output", query.shape, query.dtype)>>

\* _dot_product_attention_fwd_abstract
_dot_product_attention_fwd_abstract(query, key, layout, is_training) ==
  LET bnth == PyEq(layout, EnumValue(BNTH))
      B == query.shape[1]
      N == IF bnth THEN query.shape[2] ELSE query.shape[3]
      T == IF bnth THEN query.shape[3] ELSE query.shape[2]
      output_shape == query.shape
      softmax_stat_shape == <<B, N, T>>
  IN IF is_training
     THEN <<Value("output", output_shape, query.dtype),
            Value("softmax_stat", softmax_stat_shape, "float32")>>
     ELSE <<Value("output", output_shape, query.dtype)>>

\* _dot_product_attention_bwd_abstract
_dot_product_attention_bwd_abstract(query, key, value, bias, variadic_args) ==
  LET has_dbias == variadic_args[2]
      qkv == <<Value("grad_query", query.shape, query.dtype),
               Value("grad_key", key.shape, key.dtype),
               Value("grad_value", value.shape, value.dtype)>>
  IN IF has_dbias
     THEN qkv \o <<Value("grad_bias", bias.shape, bias.dtype)>>
     ELSE qkv

\* _dot_product_attention_fwd_cuda_lowering: the custom call it emits and the
\* values it returns
_dot_product_attention_fwd_cuda_lowering(query, key, value, bias, q_seqlen, kv_seqlen, scale, seed, dropout_rate, variadic_args, mask_type, layout, sliding_window_length, is_training) ==
  LET bnth == PyEq(layout, EnumValue(BNTH))
      B == query.shape[1]
      N == IF bnth THEN query.shape[2] ELSE query.shape[3]
      T == IF bnth THEN query.shape[3] ELSE query.shape[2]
      H == query.shape[4]
      S == IF bnth THEN key.shape[3] ELSE key.shape[2]
      output_layout == IF bnth THEN <<3, 2, 1, 0>> ELSE <<3, 1, 2, 0>>
      output_transpose_perm == IF bnth THEN <<0, 1, 2, 3>> ELSE <<0, 2, 1, 3>>
      output_shape == <<B, N, T, H>>
      softmax_stat_shape == <<B, N, T>>
      workspace_shape == <<0>>
      backend_config == create_dot_product_attention_backend_config(
          B, N, T, S, query.dtype, scale, seed, dropout_rate,
          mask_type, layout, sliding_window_length, FALSE)
      has_dropout == dropout_rate > 0
      has_bias == variadic_args[1]
      operands ==
        <<Operand("query", query), Operand("key", key), Operand("value", value)>>
        \o (IF has_bias THEN <<Operand("bias", bias)>> ELSE <<>>)
        \o (IF has_padding(mask_type)
            THEN <<Operand("q_seqlen", q_seqlen), Operand("kv_seqlen", kv_seqlen)>>
            ELSE <<>>)
      custom_call_name == get_custom_call_name(has_bias, has_dropout, FALSE)
      result_types ==
        IF is_training
        THEN <<ResultType("output", output_shape, query.dtype, output_layout),
               ResultType("softmax_stat", softmax_stat_shape, "float32",
                          default_layouts(softmax_stat_shape)),
               ResultType("workspace", workspace_shape, "uint8",
                          default_layouts(workspace_shape))>>
        ELSE <<ResultType("output", output_shape, query.dtype, output_layout),
               ResultType("workspace", workspace_shape, "uint8",
                          default_layouts(workspace_shape))>>
      out == [name |-> custom_call_name,
              result_types |-> result_types,
              operands |-> operands,
              backend_config |-> backend_config,
              operand_layouts |->
                [i \in 1..Len(operands) |-> default_layouts(operands[i].t.shape)]]
      transposed ==
        Value("output", Transpose(result_types[1].shape, output_transpose_perm),
              result_types[1].dtype)
  IN [call |-> out,
      returns |->
        IF is_training
        THEN <<transposed,
               Value("softmax_stat", result_types[2].shape, result_types[2].dtype)>>
        ELSE <<transposed>>]

\* _dot_product_attention_bwd_cuda_lowering: the custom call it emits and the
\* values it returns
_dot_product_attention_bwd_cuda_lowering(query, key, value, bias, q_seqlen, kv_seqlen, activation, fwd_output, grad_output, scale, seed, dropout_rate, variadic_args, mask_type, layout, sliding_window_length) ==
  LET bnth == PyEq(layout, EnumValue(BNTH))
      B == query.shape[1]
      q_N == IF bnth THEN query.shape[2] ELSE query.shape[3]
      T == IF bnth THEN query.shape[3] ELSE query.shape[2]
      H == query.shape[4]
      k_N == IF bnth THEN key.shape[2] ELSE key.shape[3]
      S == IF bnth THEN key.shape[3] ELSE key.shape[2]
      grad_layout == IF bnth THEN <<3, 2, 1, 0>> ELSE <<3, 1, 2, 0>>
      grad_transpose_perm == IF bnth THEN <<0, 1, 2, 3>> ELSE <<0, 2, 1, 3>>
      workspace_shape == <<0>>
      grad_query_shape == <<B, q_N, T, H>>
      grad_key_shape == <<B, k_N, S, H>>
      grad_value_shape == <<B, k_N, S, H>>
      backend_config == create_dot_product_attention_backend_config(
          B, q_N, T, S, query.dtype, scale, seed, dropout_rate,
          mask_type, layout, sliding_window_length, TRUE)
      has_dropout == dropout_rate > 0
      has_bias == variadic_args[1]
      has_dbias == variadic_args[2]
      operands ==
        <<Operand("query", query), Operand("key", key), Operand("value", value),
          Operand("activation", activation), Operand("grad_output", grad_output)>>
        \o (IF has_bias THEN <<Operand("bias", bias)>> ELSE <<>>)
        \o <<Operand("fwd_output", fwd_output)>>
        \o (IF has_padding(mask_type)
            THEN <<Operand("q_seqlen", q_seqlen), Operand("kv_seqlen", kv_seqlen)>>
            ELSE <<>>)
      custom_call_name == get_custom_call_name(has_bias, has_dropout, TRUE)
      result_types ==
        <<ResultType("grad_query", grad_query_shape, query.dtype, grad_layout),
          ResultType("grad_key", grad_key_shape, key.dtype, grad_layout),
          ResultType("grad_value", grad_value_shape, value.dtype, grad_layout)>>
        \o (IF has_dbias
            THEN <<ResultType("grad_bias", bias.shape, bias.dtype,
                              default_layouts(bias.shape))>>
            ELSE <<>>)
        \o <<ResultType("workspace", workspace_shape, "uint8",
                        default_layouts(workspace_shape))>>
      out == [name |-> custom_call_name,
              result_types |-> result_types,
              operands |-> operands,
              backend_config |-> backend_config,
              operand_layouts |->
                [i \in 1..Len(operands) |-> default_layouts(operands[i].t.shape)]]
      dqkv ==
        [i \in 1..3 |->
           Value(result_types[i].name,
                 Transpose(result_types[i].shape, grad_transpose_perm),
                 result_types[i].dtype)]
  IN [call |-> out,
      returns |->
        IF has_dbias
        THEN dqkv \o <<Value("grad_bias", result_types[4].shape, result_types[4].dtype)>>
        ELSE dqkv]

----------------------------------------------------------------------------
(* dot_product_attention: the user call, one action per statement *)

MaxWindow == 2     \* sliding_window_length ranges over None and -1..MaxWindow

\* check_compute_capability(capability) on a backend [cuda, cc]: cc is the
\* device's compute capability as the tuple of ints the code compares
check_compute_capability(target, backend) ==
  IF ~backend.cuda THEN FALSE
  ELSE \/ backend.cc[1] > target[1]
       \/ backend.cc[1] = target[1] /\ backend.cc[2] >= target[2]
Backends == [cuda : BOOLEAN, cc : {<<7, 5>>, <<8, 0>>, <<9, 0>>}]

sliding_window_rejected_negative_only(sliding_window_length) ==
  sliding_window_length # NoneObj /\ sliding_window_length.val < 0

\* the condition under which dot_product_attention refuses sliding_window_length
sliding_window_rejected(sliding_window_length) ==
  sliding_window_length # NoneObj /\ sliding_window_length.val <= 0

QShape(l, B, T, N, H) == IF l = BNTH THEN <<B, N, T, H>> ELSE <<B, T, N, H>>
LayoutName(l) == IF l = BNTH THEN <<"B", "N", "T", "H">> ELSE <<"B", "T", "N", "H">>
LayoutStrings ==
  {<<"B", "T", "N", "H">>, <<"B", "N", "T", "H">>, <<"b", "s", "n", "h">>,
   <<"B", "N", "S", "H">>, <<"N", "T", "B", "H">>}
Windows == {NoneObj} \cup {IntObj(n) : n \in -1..MaxWindow}
DropoutRates == {0, 100}      \* in thousandths
BaseArgs ==
  [query |-> Tensor(<<2, 2, 2, 8>>, "bfloat16"),
   key |-> Tensor(<<2, 2, 2, 8>>, "bfloat16"),
   value |-> Tensor(<<2, 2, 2, 8>>, "bfloat16"),
   bias |-> NoneT, mask |-> NoneT, mask_elems |-> <<TRUE, FALSE>>,
   q_seqlen |-> NoneT, kv_seqlen |-> NoneT,
   scale |-> 1, mask_type |-> "NO_MASK", seed |-> 42, dropout_rate |-> 0,
   qkv_layout |-> <<"B", "T", "N", "H">>, sliding_window_length |-> NoneObj,
   differentiated |-> FALSE]
\* the sequence lengths of the calls drawn with shapes: odd, even, and a longer
\* even one
SeqLens == {1, 2, 2 * MaxExtent}
BiasOpts(T, S, dtype) ==
  {NoneT, Tensor(<<T, S>>, dtype)}
  \cup {Tensor(<<bB, bN, T, S>>, dtype) : bB \in Extents, bN \in Extents}

InitLoc(a) ==
  [cudnn_version |-> 0, layout |-> BTNH, bias |-> a.bias, mask |-> a.mask,
   mask_fold |-> <<>>, q_seqlen |-> a.q_seqlen, kv_seqlen |-> a.kv_seqlen,
   variadic_args |-> <<FALSE, FALSE>>, outputs |-> <<>>, res |-> <<>>,
   grads |-> <<>>]

Enter(a) ==
  /\ args' = a
  /\ loc' = InitLoc(a)
  /\ pc' = "check_cudnn_version"
  /\ UNCHANGED <<err, binds, calls>>

\* a caller invokes dot_product_attention, directly or under differentiation
Call ==
  /\ pc = "idle"
  /\ \/ \* layout string, sliding window, dropout
        \E ls \in LayoutStrings, w \in Windows, dr \in DropoutRates, d \in BOOLEAN :
          Enter([BaseArgs EXCEPT !.qkv_layout = ls, !.sliding_window_length = w,
                                 !.dropout_rate = dr, !.differentiated = d])
     \/ \* mask type and sequence lengths
        \E mt \in MaskTypes, qs \in BOOLEAN, ks \in BOOLEAN, l \in Layouts,
           d \in BOOLEAN :
          Enter([BaseArgs EXCEPT
                   !.mask_type = mt, !.qkv_layout = LayoutName(l),
                   !.q_seqlen = IF qs THEN Tensor(<<2>>, "int32") ELSE NoneT,
                   !.kv_seqlen = IF ks THEN Tensor(<<2>>, "int32") ELSE NoneT,
                   !.differentiated = d])
     \/ \* dtype, mask kind, mask contents, bias
        \E dt \in FloatDtypes, mk \in {"none", "bool", "float"}, hb \in BOOLEAN,
           e \in BOOLEAN \X BOOLEAN, dr \in DropoutRates, d \in BOOLEAN :
          Enter([BaseArgs EXCEPT
                   !.dropout_rate = dr,
                   !.query = Tensor(<<2, 2, 2, 8>>, dt),
                   !.key = Tensor(<<2, 2, 2, 8>>, dt),
                   !.value = Tensor(<<2, 2, 2, 8>>, dt),
                   !.mask = IF mk = "none" THEN NoneT
                            ELSE Tensor(<<2, 2>>, IF mk = "bool" THEN "bool" ELSE dt),
                   !.mask_elems = e,
                   !.bias = IF hb THEN Tensor(<<1, 2, 2, 2>>, dt) ELSE NoneT,
                   !.differentiated = d])
     \/ \* shapes of query, key, value, bias and mask
        \E l \in Layouts, B \in Extents, N \in Extents, T \in SeqLens, S \in SeqLens,
           H \in {HeadDimMultiple, HeadDimMultiple + 4}, hm \in BOOLEAN,
           d \in BOOLEAN :
          \E b \in BiasOpts(T, S, "float16") :
            Enter([BaseArgs EXCEPT
                     !.qkv_layout = LayoutName(l),
                     !.query = Tensor(QShape(l, B, T, N, H), "float16"),
                     !.key = Tensor(QShape(l, B, S, N, H), "float16"),
                     !.value = Tensor(QShape(l, B, S, N, H), "float16"),
                     !.bias = b,
                     !.mask = IF hm THEN Tensor(<<T, S>>, "bool") ELSE NoneT,
                     !.differentiated = d])
  /\ UNCHANGED <<chk, part>>

Step(next, newloc) ==
  /\ pc' = next
  /\ loc' = newloc
  /\ UNCHANGED <<args, err, binds, calls, chk, part>>

Raise(e) ==
  /\ pc' = "raised"
  /\ err' = e
  /\ UNCHANGED <<args, loc, binds, calls, chk, part>>

\* cudnn_version = check_cudnn_version(): cuda_versions is None, or its version
CheckCudnnVersion ==
  /\ pc = "check_cudnn_version"
  /\ \/ Raise("RuntimeError: cuDNN is not detected.")
     \/ \E v \in CudnnVersions :
          Step("check_compute_capability", [loc EXCEPT !.cudnn_version = v])

\* if not check_compute_capability("8.0"): raise
CheckComputeCapability ==
  /\ pc = "check_compute_capability"
  /\ \E backend \in Backends :
       IF ~check_compute_capability(<<8, 0>>, backend)
       THEN Raise("RuntimeError: Require at least Ampere arch to run")
       ELSE Step("normalize_layout", loc)

\* layout = _normalize_layout(qkv_layout)
NormalizeLayout ==
  /\ pc = "normalize_layout"
  /\ LET r == _normalize_layout(args.qkv_layout)
     IN IF r.err # "none" THEN Raise(r.err)
        ELSE Step("check_padding", [loc EXCEPT !.layout = r.val])

\* if has_padding(mask_type) and (q_seqlen is None or kv_seqlen is None): raise
CheckPadding ==
  /\ pc = "check_padding"
  /\ IF has_padding(args.mask_type) /\ (IsNone(loc.q_seqlen) \/ IsNone(loc.kv_seqlen))
     THEN Raise("ValueError: Require q_seqlen and kv_seqlen to generate padding mask")
     ELSE Step("check_window", loc)

\* if sliding_window_length is not None and sliding_window_length <= 0: raise
CheckWindow ==
  /\ pc = "check_window"
  /\ IF sliding_window_rejected(args.sliding_window_length)
     THEN Raise("ValueError: Require sliding_window_length > 0")
     ELSE Step("fold_mask", loc)

\* jnp.where(cond, x, y) on the sampled elements of cond
Where(cond, x, y) == [i \in 1..Len(cond) |-> IF cond[i] THEN x ELSE y]

\* the bias reshape, the mask conversion and reshape, and their combination
FoldMask ==
  /\ pc = "fold_mask"
  /\ LET bias4 == IF IsNone(loc.bias) THEN NoneT
                  ELSE Tensor(ReshapeTo4D(loc.bias.shape), loc.bias.dtype)
         isbool == ~IsNone(loc.mask) /\ loc.mask.dtype = "bool"
         large_negative_number == get_large_negative_number(args.query.dtype)
         converted == IF isbool THEN Tensor(loc.mask.shape, args.query.dtype)
                      ELSE loc.mask
         mask4 == IF IsNone(loc.mask) THEN NoneT
                  ELSE Tensor(ReshapeTo4D(converted.shape), converted.dtype)
         combined ==
           IF IsNone(bias4) THEN mask4
           ELSE IF IsNone(mask4) THEN bias4
           ELSE Tensor(BroadcastShape(bias4.shape, mask4.shape), bias4.dtype)
     IN IF isbool /\ large_negative_number.err # "none"
        THEN Raise(large_negative_number.err)
        ELSE IF ~IsNone(bias4) /\ ~IsNone(mask4)
                /\ ~Broadcastable(bias4.shape, mask4.shape)
        THEN Raise("ValueError: Incompatible shapes for broadcasting")
        ELSE Step("check_layout",
               [loc EXCEPT
                  !.bias = combined, !.mask = mask4,
                  !.mask_fold =
                    IF isbool
                    THEN Where(args.mask_elems, AsArray(FloatZero, args.query.dtype),
                               large_negative_number.val)
                    ELSE <<>>])

\* check_layout(query, key, value, bias, q_seqlen, kv_seqlen, layout)
CheckLayout ==
  /\ pc = "check_layout"
  /\ LET r == check_layout(args.query, args.key, args.value, loc.bias,
                           loc.q_seqlen, loc.kv_seqlen, loc.layout)
     IN IF r # "ok" THEN Raise(r) ELSE Step("variadic_args", loc)

\* has_bias, has_dbias, variadic_args and the placeholders for None operands
VariadicArgs ==
  /\ pc = "variadic_args"
  /\ LET has_bias == ~IsNone(loc.bias)
         has_dbias == IF has_bias
                      THEN should_export_dbias(loc.bias.shape, args.query.shape,
                                               loc.layout)
                      ELSE FALSE
         zeros == Tensor(<<0>>, args.query.dtype)
     IN Step("check_is_flash_attention",
          [loc EXCEPT
             !.variadic_args = <<has_bias, has_dbias>>,
             !.bias = IF IsNone(loc.bias) THEN zeros ELSE loc.bias,
             !.q_seqlen = IF IsNone(loc.q_seqlen) THEN zeros ELSE loc.q_seqlen,
             !.kv_seqlen = IF IsNone(loc.kv_seqlen) THEN zeros ELSE loc.kv_seqlen])

CheckIsFlashAttentionAfterBind ==
  /\ pc = "check_is_flash_attention"
  /\ LET r == check_is_flash_attention(args.query, args.key, EnumValue(loc.layout),
                                       loc.cudnn_version, ~IsNone(loc.bias),
                                       args.differentiated)
     IN /\ binds' = Append(binds, [prim |-> "dot_product_attention_fwd_wrapper"])
        /\ pc' = IF r # "ok" THEN "raised" ELSE "fwd_lowering"
        /\ err' = IF r # "ok" THEN r ELSE err
        /\ UNCHANGED <<args, loc, calls, chk, part>>

\* _dot_product_attention_fwd (primal) or _dot_product_attention_fwd_rule (under
\* differentiation): check_is_flash_attention(query, key, layout,
\* cudnn_version, bias is not None, is_training)
CheckIsFlashAttention ==
  /\ pc = "check_is_flash_attention"
  /\ LET r == check_is_flash_attention(args.query, args.key, EnumValue(loc.layout),
                                       loc.cudnn_version, ~IsNone(loc.bias),
                                       args.differentiated)
     IN IF r # "ok" THEN Raise(r) ELSE Step("bind_fwd", loc)

\* the keyword parameters every bind of the call carries
NondiffParams ==
  [scale |-> args.scale, seed |-> args.seed, dropout_rate |-> args.dropout_rate,
   variadic_args |-> loc.variadic_args, mask_type |-> args.mask_type,
   layout |-> EnumValue(loc.layout),
   sliding_window_length |-> args.sliding_window_length]

Bind(event, next) ==
  /\ binds' = Append(binds, event)
  /\ pc' = next
  /\ UNCHANGED <<args, loc, err, calls, chk, part>>

\* outputs = _dot_product_attention_fwd_p_wrapper.bind(...)
BindFwd ==
  /\ pc = "bind_fwd"
  /\ Bind([prim |-> "dot_product_attention_fwd_wrapper",
           operands |-> <<args.query, args.key, args.value, loc.bias,
                          loc.q_seqlen, loc.kv_seqlen>>,
           params |-> NondiffParams,
           is_training |-> args.differentiated],
          "fwd_impl")

\* _dot_product_attention_fwd_impl: _dot_product_attention_fwd_p.bind(...)
FwdImpl ==
  /\ pc = "fwd_impl"
  /\ Bind([binds[Len(binds)] EXCEPT !.prim = "dot_product_attention_fwd"],
          "fwd_lowering")

\* _dot_product_attention_fwd_cuda_lowering of the bound primitive
FwdLowering ==
  /\ pc = "fwd_lowering"
  /\ LET b == binds[Len(binds)]
         low == _dot_product_attention_fwd_cuda_lowering(
                  b.operands[1], b.operands[2], b.operands[3], b.operands[4],
                  b.operands[5], b.operands[6], b.params.scale, b.params.seed,
                  b.params.dropout_rate, b.params.variadic_args,
                  b.params.mask_type, b.params.layout,
                  b.params.sliding_window_length, b.is_training)
     IN /\ calls' = Append(calls, [dir |-> "fwd", call |-> low.call,
                                   returns |-> low.returns])
        /\ loc' = [loc EXCEPT !.outputs =
                     _dot_product_attention_fwd_abstract(
                       b.operands[1], b.operands[2], b.params.layout, b.is_training)]
        /\ pc' = "fwd_return"
        /\ UNCHANGED <<args, err, binds, chk, part>>

FwdReturnSwapsResiduals ==
  /\ pc = "fwd_return"
  /\ IF args.differentiated
     THEN Step("bwd_rule",
            [loc EXCEPT !.res =
               <<args.query, args.key, args.value, loc.bias, loc.q_seqlen,
                 loc.kv_seqlen, loc.outputs[1], loc.outputs[2]>>])
     ELSE Step("done", loc)

\* _dot_product_attention_fwd returns outputs[0]; _dot_product_attention_fwd_rule
\* also returns the residuals res
FwdReturn ==
  /\ pc = "fwd_return"
  /\ IF args.differentiated
     THEN Step("bwd_rule",
            [loc EXCEPT !.res =
               <<args.query, args.key, args.value, loc.bias, loc.q_seqlen,
                 loc.kv_seqlen, loc.outputs[2], loc.outputs[1]>>])
     ELSE Step("done", loc)

\* _dot_product_attention_bwd_rule: grads = _dot_product_attention_bwd_p_wrapper.bind(...)
BwdRule ==
  /\ pc = "bwd_rule"
  /\ LET grad_output == Value("grad_output", loc.outputs[1].shape, loc.outputs[1].dtype)
     IN Bind([prim |-> "dot_product_attention_bwd_wrapper",
              operands |-> <<loc.res[1], loc.res[2], loc.res[3], loc.res[4],
                             loc.res[5], loc.res[6], loc.res[7], loc.res[8],
                             grad_output>>,
              params |-> NondiffParams,
              is_training |-> TRUE],
             "bwd_impl")

\* _dot_product_attention_bwd_impl: _dot_product_attention_bwd_p.bind(...)
BwdImpl ==
  /\ pc = "bwd_impl"
  /\ Bind([binds[Len(binds)] EXCEPT !.prim = "dot_product_attention_bwd"],
          "bwd_lowering")

BwdLoweringKeepsWorkspace ==
  /\ pc = "bwd_lowering"
  /\ LET b == binds[Len(binds)]
         low == _dot_product_attention_bwd_cuda_lowering(
                  b.operands[1], b.operands[2], b.operands[3], b.operands[4],
                  b.operands[5], b.operands[6], b.operands[7], b.operands[8],
                  b.operands[9], b.params.scale, b.params.seed,
                  b.params.dropout_rate, b.params.variadic_args,
                  b.params.mask_type, b.params.layout,
                  b.params.sliding_window_length)
         last == low.call.result_types[Len(low.call.result_types)]
     IN /\ calls' = Append(calls,
                       [dir |-> "bwd", call |-> low.call,
                        returns |-> Append(SubSeq(low.returns, 1, 3),
                                           Value(last.name, last.shape, last.dtype))])
        /\ loc' = [loc EXCEPT !.grads =
                     _dot_product_attention_bwd_abstract(
                       b.operands[1], b.operands[2], b.operands[3], b.operands[4],
                       b.params.variadic_args)]
        /\ pc' = "bwd_return"
        /\ UNCHANGED <<args, err, binds, chk, part>>

\* _dot_product_attention_bwd_cuda_lowering of the bound primitive
BwdLowering ==
  /\ pc = "bwd_lowering"
  /\ LET b == binds[Len(binds)]
         low == _dot_product_attention_bwd_cuda_lowering(
                  b.operands[1], b.operands[2], b.operands[3], b.operands[4],
                  b.operands[5], b.operands[6], b.operands[7], b.operands[8],
                  b.operands[9], b.params.scale, b.params.seed,
                  b.params.dropout_rate, b.params.variadic_args,
                  b.params.mask_type, b.params.layout,
                  b.params.sliding_window_length)
     IN /\ calls' = Append(calls, [dir |-> "bwd", call |-> low.call,
                                   returns |-> low.returns])
        /\ loc' = [loc EXCEPT !.grads =
                     _dot_product_attention_bwd_abstract(
                       b.operands[1], b.operands[2], b.operands[3], b.operands[4],
                       b.params.variadic_args)]
        /\ pc' = "bwd_return"
        /\ UNCHANGED <<args, err, binds, chk, part>>

NoGrad == Value("None", <<>>, "NoneType")

BwdReturnPadsThree ==
  /\ pc = "bwd_return"
  /\ Step("done", [loc EXCEPT !.grads = loc.grads \o <<NoGrad, NoGrad, NoGrad>>])

\* grads = (*grads,) + (None,) * (6 - len(grads))
BwdReturn ==
  /\ pc = "bwd_return"
  /\ Step("done",
       [loc EXCEPT !.grads = loc.grads \o [i \in 1..(6 - Len(loc.grads)) |-> NoGrad]])

InitCall ==
  /\ pc = "idle" /\ args = Null /\ loc = Null /\ err = "none"
  /\ binds = <<>> /\ calls = <<>>
  /\ chk = NoCheck
  /\ part = NoPart

NextCall ==
  \/ Call
  \/ CheckCudnnVersion
  \/ CheckComputeCapability
  \/ NormalizeLayout
  \/ CheckPadding
  \/ CheckWindow
  \/ FoldMask
  \/ CheckLayout
  \/ VariadicArgs
  \/ CheckIsFlashAttention
  \/ BindFwd
  \/ FwdImpl
  \/ FwdLowering
  \/ FwdReturn
  \/ BwdRule
  \/ BwdImpl
  \/ BwdLowering
  \/ BwdReturn

SpecCall == InitCall /\ [][NextCall]_vars

----------------------------------------------------------------------------
(* Claims about check_layout *)

LayoutDone == chk.fn = "check_layout" /\ chk.out # "pending"

\* the axes of a rank-4 shape under a layout, as the data model defines them
BatchOf(t) == t.shape[1]
HeadsOf(t, l) == IF l = BNTH THEN t.shape[2] ELSE t.shape[3]
SeqOf(t, l) == IF l = BNTH THEN t.shape[3] ELSE t.shape[2]
HeadDimOf(t) == t.shape[4]

AllRank4(i) == Len(i.query.shape) = 4 /\ Len(i.key.shape) = 4 /\ Len(i.value.shape) = 4
SameHalfDtype(i) ==
  /\ i.query.dtype \in {"bfloat16", "float16"}
  /\ i.key.dtype = i.query.dtype /\ i.value.dtype = i.query.dtype
BiasFits(i) ==
  IsNone(i.bias) \/
    /\ Len(i.bias.shape) = 4
    /\ i.bias.shape[3] = SeqOf(i.query, i.layout)
    /\ i.bias.shape[4] = SeqOf(i.key, i.layout)
SeqlenFits(s, i) ==
  IsNone(s) \/
    (s.dtype = "int32" /\ Len(s.shape) = 1 /\ s.shape[1] = BatchOf(i.query))
\* batch and head size agree across query, key and value; key and value agree
\* on head count and sequence length
QKVAgree(i) ==
  /\ BatchOf(i.query) = BatchOf(i.key) /\ BatchOf(i.key) = BatchOf(i.value)
  /\ HeadDimOf(i.query) = HeadDimOf(i.key) /\ HeadDimOf(i.key) = HeadDimOf(i.value)
  /\ HeadsOf(i.key, i.layout) = HeadsOf(i.value, i.layout)
  /\ SeqOf(i.key, i.layout) = SeqOf(i.value, i.layout)
QueryHeadsAgree(i) == HeadsOf(i.query, i.layout) = HeadsOf(i.key, i.layout)

\* C7 as stated: for both layouts check_layout accepts rank-4 same-dtype inputs
\* iff batch, head-count and head-size agree pairwise across query, key and
\* value (so a query head-count different from the key/value head-count is
\* rejected) and the bias / sequence-length shapes satisfy their constraints.
C7_Original ==
  (LayoutDone /\ AllRank4(chk.in) /\ SameHalfDtype(chk.in)) =>
    (chk.out = "ok" <=>
       /\ QKVAgree(chk.in) /\ QueryHeadsAgree(chk.in)
       /\ BiasFits(chk.in)
       /\ SeqlenFits(chk.in.q_seqlen, chk.in) /\ SeqlenFits(chk.in.kv_seqlen, chk.in))

\* C7 amended: for both layouts check_layout accepts rank-4 same-dtype inputs
\* iff batch and head-size agree across query, key and value, key and value
\* agree on head-count and sequence length, and the bias / sequence-length
\* shapes satisfy their constraints; the query head-count is not compared.
C7_Accepts ==
  (LayoutDone /\ AllRank4(chk.in) /\ SameHalfDtype(chk.in)) =>
    (chk.out = "ok" <=>
       /\ QKVAgree(chk.in)
       /\ BiasFits(chk.in)
       /\ SeqlenFits(chk.in.q_seqlen, chk.in) /\ SeqlenFits(chk.in.kv_seqlen, chk.in))

\* an accepted input whose query head-count differs from the key/value one
C7_Witness ==
  /\ LayoutDone /\ chk.out = "ok"
  /\ ~QueryHeadsAgree(chk.in)
  /\ chk.in.layout = BNTH

SeqlenBad(s, i) ==
  ~IsNone(s) /\
    (s.dtype # "int32" \/ Len(s.shape) # 1 \/ s.shape[1] # BatchOf(i.query))
C8_Case(i) ==
  \/ Len(i.query.shape) # 4
  \/ ~AllRank4(i)
  \/ i.query.dtype \notin {"bfloat16", "float16"}
  \/ i.key.dtype # i.query.dtype \/ i.value.dtype # i.query.dtype
  \/ AllRank4(i) /\ ~QKVAgree(i)
  \/ /\ AllRank4(i) /\ ~IsNone(i.bias) /\ Len(i.bias.shape) = 4
     /\ \/ i.bias.shape[3] # SeqOf(i.query, i.layout)
        \/ i.bias.shape[4] # SeqOf(i.key, i.layout)
  \/ AllRank4(i) /\ SeqlenBad(i.q_seqlen, i)
  \/ AllRank4(i) /\ SeqlenBad(i.kv_seqlen, i)

\* C8: check_layout raises when the query rank is not 4, the ranks differ, the
\* dtype is not bf16/fp16 or the dtypes differ, the batch sizes or head sizes
\* differ, key and value differ in head-count or sequence length, a bias has
\* trailing axes other than (query-seq-len, key-seq-len), or a supplied
\* sequence-length vector is not int32, not rank 1 or not of batch length.
C8_Raises == (LayoutDone /\ C8_Case(chk.in)) => chk.out # "ok"

\* the last check of check_layout has raised
C8_Witness ==
  /\ LayoutDone /\ chk.out = "ValueError: kv_seqlen batch"
  /\ ~IsNone(chk.in.q_seqlen)

----------------------------------------------------------------------------
(* check_is_flash_attention applied to the bounded inputs *)

InitFlash ==
  /\ \E x \in Extents, y \in Extents, kx \in Extents, ky \in Extents, H \in HeadDims,
        l \in Layouts, ver \in CudnnVersions, hb \in BOOLEAN, tr \in BOOLEAN :
        chk = Pending("check_is_flash_attention",
                [query |-> Tensor(<<1, x, y, H>>, "bfloat16"),
                 key |-> Tensor(<<1, kx, ky, H>>, "bfloat16"),
                 layout |-> EnumValue(l), cudnn_version |-> ver,
                 has_bias |-> hb, is_training |-> tr])
  /\ CallOff
  /\ part = NoPart

ApplyCheckIsFlashAttention ==
  /\ chk.fn = "check_is_flash_attention"
  /\ chk.out = "pending"
  /\ chk' = [chk EXCEPT !.out =
       check_is_flash_attention(chk.in.query, chk.in.key, chk.in.layout,
                                chk.in.cudnn_version, chk.in.has_bias,
                                chk.in.is_training)]
  /\ UNCHANGED <<callVars, part>>

NextFlash == ApplyCheckIsFlashAttention

SpecFlash == InitFlash /\ [][NextFlash]_vars

FlashDone == chk.fn = "check_is_flash_attention" /\ chk.out # "pending"

\* what C9 calls an unsupported configuration, T, S and H read by the layout
C9_Unsupported(i) ==
  LET l == IF i.layout.val = 1 THEN BNTH ELSE BTNH
      T == SeqOf(i.query, l)
      S == SeqOf(i.key, l)
      H == HeadDimOf(i.query)
  IN \/ H > 128
     \/ H % 8 # 0
     \/ i.is_training /\ i.has_bias /\ (T % 2 = 1 \/ S % 2 = 1)

\* C9: check_is_flash_attention raises NotImplementedError exactly when
\* head_dim > 128, head_dim % 8 != 0, or training with a bias and an odd query
\* or key/value sequence length; otherwise it raises RuntimeError exactly when
\* the cuDNN version is below 8904; otherwise it returns without error.
C9_FlashCheck ==
  FlashDone =>
    /\ (chk.out = "NotImplementedError: unsupported sequence length or head dim")
          <=> C9_Unsupported(chk.in)
    /\ (chk.out = "RuntimeError: cuDNN version")
          <=> (~C9_Unsupported(chk.in) /\ chk.in.cudnn_version < 8904)
    /\ (chk.out = "ok")
          <=> (~C9_Unsupported(chk.in) /\ chk.in.cudnn_version >= 8904)

\* training with a bias, an even query length and an odd key/value length under
\* BNTH is refused although the head size and the cuDNN version are fine
C9_Witness ==
  /\ FlashDone
  /\ chk.out = "NotImplementedError: unsupported sequence length or head dim"
  /\ chk.in.layout.val = 1
  /\ chk.in.query.shape[4] = 128 /\ chk.in.cudnn_version = 8904
  /\ chk.in.query.shape[3] = 2 /\ chk.in.key.shape[3] = 1

----------------------------------------------------------------------------
(* Claims about dot_product_attention *)

InCall == pc \notin {"off", "idle"}
\* the positions before the mask is folded, and before the window is checked
PreWindow ==
  {"check_cudnn_version", "check_compute_capability", "normalize_layout",
   "check_padding", "check_window"}
PreFold == PreWindow \cup {"fold_mask"}
\* the positions at which variadic_args has been computed
PostVariadic ==
  {"check_is_flash_attention", "bind_fwd", "fwd_impl", "fwd_lowering",
   "fwd_return", "bwd_rule", "bwd_impl", "bwd_lowering", "bwd_return", "done"}
\* the exceptions dot_product_attention raises before it folds the mask
EarlyErrors ==
  {"RuntimeError: cuDNN is not detected.",
   "RuntimeError: Require at least Ampere arch to run",
   "ValueError: Unsupported qkv_layout",
   "ValueError: Require q_seqlen and kv_seqlen to generate padding mask",
   "ValueError: Require sliding_window_length > 0"}

BiasSupplied == ~IsNone(args.bias) \/ ~IsNone(args.mask)

\* C3 as stated: has_dbias is true only if a bias (or a mask folded into the
\* bias) is supplied and the bias's batch extent and head extent equal the
\* query's batch extent and head-count; for any other bias shape it is false.
C3_Original ==
  (pc \in PostVariadic /\ loc.variadic_args[2]) =>
    /\ BiasSupplied
    /\ loc.bias.shape[1] = BatchOf(args.query)
    /\ loc.bias.shape[2] = HeadsOf(args.query, loc.layout)

BoolMask == ~IsNone(args.mask) /\ args.mask.dtype = "bool"
PowerOfTwo(sign, exp) == [sign |-> sign, exp |-> exp]
\* the folded mask holds `masked` where the mask is false and 0 where it is true
FoldedWith(masked) ==
  /\ Len(loc.mask_fold) = Len(args.mask_elems)
  /\ \A i \in 1..Len(args.mask_elems) :
       loc.mask_fold[i] = IF args.mask_elems[i] THEN FloatZero ELSE masked
\* a boolean mask with an unsupported query dtype never gets past the fold
OtherDtypeRaises ==
  (InCall /\ BoolMask /\ args.query.dtype \notin {"float16", "bfloat16"}) =>
    \/ pc \in PreFold
    \/ /\ pc = "raised"
       /\ err \in EarlyErrors \cup {"ValueError: Unsupported dtype for inputs."}

\* C4 as stated: a boolean mask folded into the bias puts exactly -2^14 (float16
\* query) or -2^40 (bfloat16 query) at every masked (false) position and 0 at
\* every unmasked position, and any other query dtype raises an error.
C4_Original ==
  /\ (InCall /\ BoolMask /\ pc \notin PreFold /\ pc # "raised") =>
       /\ args.query.dtype = "float16" => FoldedWith(PowerOfTwo(-1, 14))
       /\ args.query.dtype = "bfloat16" => FoldedWith(PowerOfTwo(-1, 40))
  /\ OtherDtypeRaises

\* C4 amended: a boolean mask folded into the bias puts exactly -2^15
\* (-2 << 14, float16 query) or -2^41 (-2 << 40, bfloat16 query) at every
\* masked (false) position and 0 at every unmasked position, and any other
\* query dtype raises an error.
C4_MaskFold ==
  /\ (InCall /\ BoolMask /\ pc \notin PreFold /\ pc # "raised") =>
       /\ args.query.dtype = "float16" => FoldedWith(PowerOfTwo(-1, 15))
       /\ args.query.dtype = "bfloat16" => FoldedWith(PowerOfTwo(-1, 41))
  /\ OtherDtypeRaises

\* a float16 call with a mask that is true, then false, has run to its end
C4_Witness ==
  /\ pc = "done" /\ BoolMask /\ args.query.dtype = "float16"
  /\ args.mask_elems = <<TRUE, FALSE>>
  /\ loc.mask_fold = <<FloatZero, PowerOfTwo(-1, 15)>>

WindowError == "ValueError: Require sliding_window_length > 0"
ConfigWindow(c) == c.call.backend_config.cudnn_fmha_backend_config.sliding_window_length
\* the call raised the sliding-window error before any bind or custom call
WindowRefused ==
  \/ pc \in PreWindow
  \/ /\ pc = "raised" /\ err \in EarlyErrors
     /\ binds = <<>> /\ calls = <<>>
\* the call does not raise the sliding-window error, and every backend
\* configuration it produces has sliding_window_length 0
WindowDisabled ==
  /\ err # WindowError
  /\ \A i \in 1..Len(calls) : ConfigWindow(calls[i]) = 0

\* C5 as stated: sliding_window_length 0 or None does not raise and gives a
\* backend configuration with sliding_window_length 0; sliding_window_length
\* <= -1 raises a configuration error before any dispatch.
C5_Original ==
  InCall =>
    /\ args.sliding_window_length \in {NoneObj, IntObj(0)} => WindowDisabled
    /\ (args.sliding_window_length # NoneObj /\ args.sliding_window_length.val <= -1)
         => WindowRefused

\* C5 amended: sliding_window_length None does not raise and gives a backend
\* configuration with sliding_window_length 0; sliding_window_length <= 0
\* (0 included) raises a configuration error before any dispatch.
C5_Window ==
  InCall =>
    /\ args.sliding_window_length = NoneObj => WindowDisabled
    /\ (args.sliding_window_length # NoneObj /\ args.sliding_window_length.val <= 0)
         => WindowRefused

\* a differentiated call without a window has emitted both custom calls
C5_Witness ==
  /\ pc = "done" /\ args.sliding_window_length = NoneObj
  /\ Len(calls) = 2
  /\ ConfigWindow(calls[1]) = 0 /\ ConfigWindow(calls[2]) = 0

\* C6: when a validation step of dot_product_attention fails, the error is
\* raised before the forward primitive is bound: a call that has raised has
\* issued no bind and no custom call, and issues none afterwards.
C6_NoDispatchAfterFailure ==
  /\ [](err # "none" => (pc = "raised" /\ binds = <<>> /\ calls = <<>>))
  /\ [][err # "none" => (binds' = binds /\ calls' = calls)]_vars

\* the last validation, the cuDNN version check of check_is_flash_attention,
\* has failed
C6_Witness ==
  /\ pc = "raised" /\ err = "RuntimeError: cuDNN version"
  /\ binds = <<>> /\ calls = <<>>

Has(name, piece) == \E i \in 1..Len(name) : name[i] = piece
Flags == BOOLEAN \X BOOLEAN \X BOOLEAN
NameOf(k) == get_custom_call_name(k[1], k[2], k[3])

\* C10: the call target is a total, injective function of (is_backward,
\* dropout_rate > 0, has_bias); every name starts with __cudnn$fmha, contains
\* Backward iff the call is the backward one, Dropout iff dropout_rate > 0 and
\* ScaleBias iff has_bias; the forward lowering never selects a backward name
\* and the backward lowering never selects a forward name.  The table does not
\* depend on the state, so it is examined once, before the call.
C10_CallNames ==
  /\ pc = "idle" =>
       /\ \A k \in Flags :
            /\ NameOf(k)[1] = "__cudnn$fmha"
            /\ Has(NameOf(k), "ScaleBias") <=> k[1]
            /\ Has(NameOf(k), "Dropout") <=> k[2]
            /\ Has(NameOf(k), "Backward") <=> k[3]
       /\ \A k1 \in Flags, k2 \in Flags :
            Join(NameOf(k1)) = Join(NameOf(k2)) => k1 = k2
  /\ \A i \in 1..Len(calls) :
       /\ calls[i].call.name =
            get_custom_call_name(loc.variadic_args[1], args.dropout_rate > 0,
                                 calls[i].dir = "bwd")
       /\ Has(calls[i].call.name, "Backward") <=> calls[i].dir = "bwd"
       /\ Has(calls[i].call.name, "Dropout") <=> args.dropout_rate > 0
       /\ Has(calls[i].call.name, "ScaleBias") <=> loc.variadic_args[1]

\* a differentiated call with bias and dropout has emitted both custom calls
C10_Witness ==
  /\ pc = "done" /\ Len(calls) = 2
  /\ Join(calls[1].call.name) = "__cudnn$fmhaScaleBiasSoftmaxDropout"
  /\ Join(calls[2].call.name) = "__cudnn$fmhaScaleBiasSoftmaxDropoutBackward"

----------------------------------------------------------------------------
(* custom partitioning *)

\* the extent of each mesh axis, and the largest bias-gradient contribution
MeshAxisSize == 2
MaxGrad == 1

\* a PartitionSpec entry is a mesh axis name or None
NoLabel == "None"
MeshAxes == {"dp", "tp"}
Labels == MeshAxes \cup {NoLabel}
\* one shard per point of the mesh
Devices == [MeshAxes -> 1..MeshAxisSize]
Blocks == 1..MeshAxisSize

NoSharding == [kind |-> "NoneType", spec |-> <<>>]
NamedSharding(spec) == [kind |-> "NamedSharding", spec |-> spec]
ArgInfo(ndim, sharding) == [ndim |-> ndim, sharding |-> sharding]
\* (None,) * n
Nones(n) == [i \in 1..n |-> NoLabel]
\* an optional spec: None, or a tuple of labels
NoSpec == [none |-> TRUE, axes |-> <<>>]
SomeSpec(s) == [none |-> FALSE, axes |-> s]
Failed(e) == [err |-> e, val |-> <<>>]
Ok(v) == [err |-> "ok", val |-> v]

_get_padded_spec(arg_info) ==
  IF arg_info.sharding.kind = "NoneType" THEN Ok(Nones(arg_info.ndim))
  ELSE IF Len(arg_info.sharding.spec) > arg_info.ndim THEN Failed("AssertionError")
  ELSE Ok(arg_info.sharding.spec \o Nones(arg_info.ndim - Len(arg_info.sharding.spec)))

\* any(xs) over labels: a label is truthy unless it is None
AnyLabel(xs) == \E i \in 1..Len(xs) : xs[i] # NoLabel

\* the variant whose bias check leaves out the num_head comparison
check_bias_spec_batch_only(bias_spec, batch_spec, num_head_spec) ==
  LET m == Len(bias_spec)
      bias_batch_spec == SubSeq(bias_spec, 1, m - 3)
  IN IF m < 3 THEN "ValueError: not enough values to unpack"
     ELSE IF AnyLabel(bias_batch_spec) /\ bias_batch_spec # batch_spec
     THEN "ValueError: Query and bias should have same sharding on batch and num_head dim."
     ELSE IF bias_spec[m - 1] # NoLabel \/ bias_spec[m] # NoLabel
     THEN "ValueError: Sharding on bias sequence dim is not allowed."
     ELSE "ok"

\* the bias check of _check_qkv_bias_mask_spec, given the query's batch and
\* num_head labels
check_bias_spec(bias_spec, batch_spec, num_head_spec) ==
  LET m == Len(bias_spec)
      bias_batch_spec == SubSeq(bias_spec, 1, m - 3)
      bias_num_head_spec == bias_spec[m - 2]
      bias_q_seq_spec == bias_spec[m - 1]
      bias_kv_seq_spec == bias_spec[m]
  IN IF m < 3 THEN "ValueError: not enough values to unpack"
     ELSE IF \/ AnyLabel(bias_batch_spec) /\ bias_batch_spec # batch_spec
             \/ bias_num_head_spec # NoLabel /\ bias_num_head_spec # num_head_spec
     THEN "ValueError: Query and bias should have same sharding on batch and num_head dim."
     ELSE IF bias_q_seq_spec # NoLabel \/ bias_kv_seq_spec # NoLabel
     THEN "ValueError: Sharding on bias sequence dim is not allowed."
     ELSE "ok"

_check_qkv_bias_mask_spec(query_spec, key_spec, value_spec, bias_spec) ==
  LET n == Len(query_spec)
      batch_spec == SubSeq(query_spec, 1, n - 3)
      q_seq_spec == query_spec[n - 2]
      num_head_spec == query_spec[n - 1]
      head_spec == query_spec[n]
  IN IF ~(query_spec = key_spec /\ key_spec = value_spec)
     THEN "ValueError: Query, key and value should have same sharding."
     ELSE IF n < 3 THEN "ValueError: not enough values to unpack"
     ELSE IF q_seq_spec # NoLabel
     THEN "ValueError: Sharding on sequence dim is not allowed."
     ELSE IF head_spec # NoLabel
     THEN "ValueError: Sharding on head dim is not allowed."
     ELSE IF ~bias_spec.none /\ Len(bias_spec.axes) > 0
     THEN check_bias_spec(bias_spec.axes, batch_spec, num_head_spec)
     ELSE "ok"

\* the padded specs of query, key, value and (when has_bias) bias, checked
checked_specs(arg_shapes, variadic_args) ==
  LET q == _get_padded_spec(arg_shapes[1])
      k == _get_padded_spec(arg_shapes[2])
      v == _get_padded_spec(arg_shapes[3])
      b == IF variadic_args[1] THEN _get_padded_spec(arg_shapes[4]) ELSE Ok(<<>>)
      bias_spec == IF variadic_args[1] THEN SomeSpec(b.val) ELSE NoSpec
      e == IF q.err # "ok" THEN q.err
           ELSE IF k.err # "ok" THEN k.err
           ELSE IF v.err # "ok" THEN v.err
           ELSE IF b.err # "ok" THEN b.err
           ELSE _check_qkv_bias_mask_spec(q.val, k.val, v.val, bias_spec)
  IN [err |-> e, query_spec |-> q.val, key_spec |-> k.val, value_spec |-> v.val,
      bias_spec |-> bias_spec]

_infer_fwd_output_sharding(mesh, arg_shapes, variadic_args, is_training) ==
  LET c == checked_specs(arg_shapes, variadic_args)
      n == Len(c.query_spec)
      out_sharding == NamedSharding(c.query_spec)
      activation_sharding ==
        NamedSharding(SubSeq(c.query_spec, 1, n - 3)
                        \o <<c.query_spec[n - 1], c.query_spec[n - 2], NoLabel>>)
  IN IF c.err # "ok" THEN Failed(c.err)
     ELSE IF is_training THEN Ok(<<out_sharding, activation_sharding>>)
     ELSE Ok(<<out_sharding>>)

_infer_bwd_output_sharding(mesh, arg_shapes, variadic_args) ==
  LET c == checked_specs(arg_shapes, variadic_args)
      out_shardings ==
        <<NamedSharding(c.query_spec), NamedSharding(c.key_spec),
          NamedSharding(c.key_spec)>>
  IN IF c.err # "ok" THEN Failed(c.err)
     ELSE IF variadic_args[2]
     THEN IF c.bias_spec.none
          THEN Failed("TypeError: argument after * must be an iterable, not NoneType")
          ELSE Ok(out_shardings \o <<NamedSharding(c.bias_spec.axes)>>)
     ELSE Ok(out_shardings)

ArgShardingsPadded(arg_shapes) ==
  [i \in 1..Len(arg_shapes) |-> NamedSharding(_get_padded_spec(arg_shapes[i]).val)]

ArgShardings(arg_shapes) == [i \in 1..Len(arg_shapes) |-> arg_shapes[i].sharding]

_dot_product_attention_fwd_partition(variadic_args, layout, is_training, mesh, arg_shapes) ==
  LET out_shardings ==
        _infer_fwd_output_sharding(mesh, arg_shapes, variadic_args, is_training)
  IN [err |-> out_shardings.err, mesh |-> mesh,
      impl |-> "_dot_product_attention_fwd_impl",
      out_shardings |-> out_shardings.val, arg_shardings |-> ArgShardings(arg_shapes)]

\* the sum of f(i) for i in 1..n
RECURSIVE SumTo(_, _)
SumTo(f, n) == IF n = 0 THEN 0 ELSE f[n] + SumTo(f, n - 1)

\* jax.lax.psum(x, axis_name) with x the operand on every shard: each shard
\* receives the sum over the shards that differ from it along axis_name only
psum(x, axis_name) ==
  IF axis_name \notin MeshAxes THEN Failed("NameError: unbound axis name")
  ELSE Ok([d \in Devices |->
             [a \in DOMAIN x[d] |->
                SumTo([i \in Blocks |-> x[[d EXCEPT ![axis_name] = i]][a]],
                      MeshAxisSize)]])

\* the variant that returns the shard-local bias gradient
sharded_impl_local_dbias(grads, variadic_args, arg_shardings) ==
  Ok(grads)

\* sharded_impl of _dot_product_attention_bwd_partition, after impl(*args) has
\* given grads on every shard
sharded_impl(grads, variadic_args, arg_shardings) ==
  IF variadic_args[2]
  THEN IF arg_shardings[1].kind = "NoneType"
       THEN Failed("AttributeError: 'NoneType' object has no attribute 'spec'")
       ELSE LET query_spec == arg_shardings[1].spec
            IN IF Len(query_spec) = 0
               THEN Failed("IndexError: tuple index out of range")
               ELSE LET batch_spec == query_spec[1]
                        global_dbias == psum([d \in Devices |-> grads[d][4]], batch_spec)
                    IN IF global_dbias.err # "ok" THEN Failed(global_dbias.err)
                       ELSE Ok([d \in Devices |->
                                  SubSeq(grads[d], 1, 3) \o <<global_dbias.val[d]>>])
  ELSE Ok(grads)

_dot_product_attention_bwd_partition(variadic_args, layout, mesh, arg_shapes) ==
  LET out_shardings == _infer_bwd_output_sharding(mesh, arg_shapes, variadic_args)
  IN [err |-> out_shardings.err, mesh |-> mesh, impl |-> "sharded_impl",
      out_shardings |-> out_shardings.val, arg_shardings |-> ArgShardings(arg_shapes)]

\* The operands of one shard.  The batch is cut into Blocks along the mesh axis
\* that labels query axis 0, and query axis 2 along the mesh axis that labels
\* it; an axis without a label is held whole by every shard.
Held(spec, axis, d) ==
  IF axis <= Len(spec) /\ spec[axis] \in MeshAxes THEN {d[spec[axis]]} ELSE Blocks
SumOver(f, S) == SumTo([i \in Blocks |-> IF i \in S THEN f[i] ELSE 0], MeshAxisSize)
\* impl(*args) on shard d: the gradients of the block it holds; the bias is
\* shared over the batch, so its gradient adds up the batch blocks held
LocalGrad(name, spec, d) ==
  [grad |-> name, batch |-> Held(spec, 1, d), axis2 |-> Held(spec, 3, d)]
_dot_product_attention_bwd_impl(query_spec, variadic_args, contrib, d) ==
  <<LocalGrad("grad_query", query_spec, d), LocalGrad("grad_key", query_spec, d),
    LocalGrad("grad_value", query_spec, d)>>
  \o (IF variadic_args[2]
      THEN <<[a \in Held(query_spec, 3, d) |->
                SumOver([b \in Blocks |-> contrib[b][a]], Held(query_spec, 1, d))]>>
      ELSE <<>>)

\* PartitionSpec refuses a mesh axis that labels two array axes
NoDuplicate(s) ==
  \A i \in 1..Len(s), j \in 1..Len(s) : (i # j /\ s[i] # NoLabel) => s[i] # s[j]
RawSpecs == {s \in UNION {[1..n -> Labels] : n \in 0..4} : NoDuplicate(s)}
QuerySpecs ==
  {<<>>, <<"dp">>, <<"tp">>, <<"dp", NoLabel, "tp">>, <<NoLabel, NoLabel, "dp">>,
   <<NoLabel>>}
\* the query specs under which the bias gradient of every block is drawn
ReducedSpecs == {<<>>, <<"dp">>, <<"dp", NoLabel, "tp">>, <<NoLabel, NoLabel, "dp">>}
Contribs == [Blocks -> [Blocks -> 0..MaxGrad]]
NoContrib == [b \in Blocks |-> [a \in Blocks |-> 0]]
Mesh == [a \in MeshAxes |-> MeshAxisSize]
\* the bias is the zeros(0) placeholder when has_bias is false
ArgShapes(q, k, v, has_bias, b) ==
  <<ArgInfo(4, NamedSharding(q)), ArgInfo(4, NamedSharding(k)),
    ArgInfo(4, NamedSharding(v)),
    IF has_bias THEN ArgInfo(4, NamedSharding(b)) ELSE ArgInfo(1, NamedSharding(<<>>))>>

Partitioning(dir, layout, arg_shapes, variadic_args, is_training, contrib) ==
  [pc |-> "infer", dir |-> dir, layout |-> layout, mesh |-> Mesh,
   arg_shapes |-> arg_shapes, variadic_args |-> variadic_args,
   is_training |-> is_training, contrib |-> contrib, err |-> "none",
   out_shardings |-> <<>>, arg_shardings |-> <<>>, grads |-> <<>>]

InitShard ==
  /\ CallOff
  /\ chk = NoCheck
  /\ \/ \* the labels of query, key and value, without a bias
        \E dir \in {"fwd", "bwd"}, l \in Layouts, q \in RawSpecs, tr \in BOOLEAN :
          /\ dir = "bwd" => tr
          /\ part = Partitioning(dir, l, ArgShapes(q, q, q, FALSE, <<>>),
                                 <<FALSE, FALSE>>, tr, NoContrib)
     \/ \* key or value sharded differently from query
        \E dir \in {"fwd", "bwd"}, q \in QuerySpecs, k \in RawSpecs, same \in BOOLEAN :
          part = Partitioning(dir, BTNH, ArgShapes(q, k, IF same THEN k ELSE q, FALSE, <<>>),
                              <<FALSE, FALSE>>, TRUE, NoContrib)
     \/ \* the labels of the bias; a bias whose gradient is exported has batch
        \* extent 1, which cannot be sharded
        \E dir \in {"fwd", "bwd"}, q \in QuerySpecs, b \in RawSpecs, dbias \in BOOLEAN :
          /\ dbias => (IF Len(b) = 0 THEN TRUE ELSE b[1] = NoLabel)
          /\ part = Partitioning(dir, BTNH, ArgShapes(q, q, q, TRUE, b),
                                 <<TRUE, dbias>>, TRUE, NoContrib)
     \/ \* the bias gradient of every block
        \E q \in ReducedSpecs, g \in Contribs :
          part = Partitioning("bwd", BTNH, ArgShapes(q, q, q, TRUE, <<>>),
                              <<TRUE, TRUE>>, TRUE, g)

ShardStep(next, fields) ==
  /\ part' = [fields EXCEPT !.pc = next]
  /\ UNCHANGED <<pc, args, loc, err, binds, calls, chk>>
ShardRaise(e) == ShardStep("raised", [part EXCEPT !.err = e])

_dot_product_attention_fwd_infer_sharding_from_operands ==
  /\ part.pc = "infer" /\ part.dir = "fwd"
  /\ LET r == _infer_fwd_output_sharding(part.mesh, part.arg_shapes, part.variadic_args,
                                         part.is_training)
     IN IF r.err # "ok" THEN ShardRaise(r.err)
        ELSE ShardStep("partition", [part EXCEPT !.out_shardings = r.val])

FwdPartition ==
  /\ part.pc = "partition" /\ part.dir = "fwd"
  /\ LET r == _dot_product_attention_fwd_partition(part.variadic_args, part.layout,
                part.is_training, part.mesh, part.arg_shapes)
     IN IF r.err # "ok" THEN ShardRaise(r.err)
        ELSE ShardStep("done", [part EXCEPT !.out_shardings = r.out_shardings,
                                            !.arg_shardings = r.arg_shardings])

_dot_product_attention_bwd_infer_sharding_from_operands ==
  /\ part.pc = "infer" /\ part.dir = "bwd"
  /\ LET r == _infer_bwd_output_sharding(part.mesh, part.arg_shapes, part.variadic_args)
     IN IF r.err # "ok" THEN ShardRaise(r.err)
        ELSE ShardStep("partition", [part EXCEPT !.out_shardings = r.val])

BwdPartition ==
  /\ part.pc = "partition" /\ part.dir = "bwd"
  /\ LET r == _dot_product_attention_bwd_partition(part.variadic_args, part.layout,
                part.mesh, part.arg_shapes)
     IN IF r.err # "ok" THEN ShardRaise(r.err)
        ELSE ShardStep("sharded_impl", [part EXCEPT !.out_shardings = r.out_shardings,
                                                    !.arg_shardings = r.arg_shardings])

\* the partitioned backward implementation runs on every shard of the mesh
ShardedImpl ==
  /\ part.pc = "sharded_impl"
  /\ LET query_spec == _get_padded_spec(part.arg_shapes[1]).val
         grads == [d \in Devices |->
                     _dot_product_attention_bwd_impl(query_spec, part.variadic_args,
                                                     part.contrib, d)]
         r == sharded_impl(grads, part.variadic_args, part.arg_shardings)
     IN IF r.err # "ok" THEN ShardRaise(r.err)
        ELSE ShardStep("done", [part EXCEPT !.grads = r.val])

NextShard ==
  \/ _dot_product_attention_fwd_infer_sharding_from_operands
  \/ FwdPartition
  \/ _dot_product_attention_bwd_infer_sharding_from_operands
  \/ BwdPartition
  \/ ShardedImpl

SpecShard == InitShard /\ [][NextShard]_vars

----------------------------------------------------------------------------
(* Claims about the partitioner *)

Sharded == part.pc \notin {"off", "infer"}
QuerySpec == _get_padded_spec(part.arg_shapes[1]).val
\* the positions of the sequence and head-count axes of query in the layout
SeqAxis == IF part.layout = BTNH THEN 2 ELSE 3
HeadsAxis == IF part.layout = BTNH THEN 3 ELSE 2
QKVSpecsEqual ==
  /\ _get_padded_spec(part.arg_shapes[2]).val = QuerySpec
  /\ _get_padded_spec(part.arg_shapes[3]).val = QuerySpec
CheckRaised == part.pc = "raised" /\ part.err # "none"

\* C1 as stated: for both layouts, with query, key and value specs equal and
\* no bias, the sharding check raises whenever the sequence axis or the
\* head-size axis carries a partition label, and accepts every assignment in
\* which only the batch and head-count axes carry labels.
C1_Original ==
  (Sharded /\ QKVSpecsEqual /\ ~part.variadic_args[1]) =>
    IF QuerySpec[SeqAxis] # NoLabel \/ QuerySpec[4] # NoLabel
    THEN CheckRaised
    ELSE ~CheckRaised

BatchSharded ==
  /\ Len(part.arg_shapes[1].sharding.spec) > 0
  /\ part.arg_shapes[1].sharding.spec[1] \in MeshAxes
BiasShared ==
  LET b == part.arg_shapes[4].sharding.spec
  IN IF Len(b) = 0 THEN TRUE ELSE b[1] = NoLabel
\* the sum over the whole batch of the bias-gradient contributions to block a
Total(a) == SumTo([b \in Blocks |-> part.contrib[b][a]], MeshAxisSize)
\* what impl(*args) gave on shard d
LocalGrads(d) ==
  _dot_product_attention_bwd_impl(QuerySpec, part.variadic_args, part.contrib, d)

\* C2: in the partitioned backward implementation with has_dbias true, the
\* query's batch axis sharded and the bias shared, the bias gradient returned
\* on every shard is the sum of the bias gradients of all the batch's shards,
\* and grad_query, grad_key and grad_value are returned shard-local, unreduced.
C2_BiasGradientReduced ==
  (part.pc = "done" /\ part.dir = "bwd" /\ part.variadic_args[2]
     /\ BatchSharded /\ BiasShared) =>
    \A d \in Devices :
      /\ Len(part.grads[d]) = 4
      /\ part.grads[d][4] = [a \in Held(QuerySpec, 3, d) |-> Total(a)]
      /\ SubSeq(part.grads[d], 1, 3) = SubSeq(LocalGrads(d), 1, 3)

\* a batch split over dp whose two blocks both contribute to the bias gradient
C2_Witness ==
  /\ part.pc = "done" /\ part.dir = "bwd" /\ part.variadic_args[2]
  /\ BatchSharded /\ BiasShared
  /\ part.arg_shapes[1].sharding.spec = <<"dp">>
  /\ part.contrib[1][1] = 1 /\ part.contrib[2][1] = 1
  /\ \A d \in Devices : part.grads[d][4][1] = 2

----------------------------------------------------------------------------
(* Claims about the custom calls the lowerings emit *)

OperandNames(c) == [i \in 1..Len(c.operands) |-> c.operands[i].arg]
ResultNames(c) == [i \in 1..Len(c.result_types) |-> c.result_types[i].name]
ReturnNames(r) == [i \in 1..Len(r) |-> r[i].name]
OperandOf(c, name) ==
  c.operands[CHOOSE i \in 1..Len(c.operands) : c.operands[i].arg = name].t
\* the mask types that need the sequence lengths, as the claims name them
PaddingMask == args.mask_type \in {"PADDING", "PADDING_CAUSAL"}
SeqlenOperands == IF PaddingMask THEN <<"q_seqlen", "kv_seqlen">> ELSE <<>>
BiasOperand == IF loc.variadic_args[1] THEN <<"bias">> ELSE <<>>

\* C11: the forward custom call's operands are exactly query, key, value, then
\* the bias iff has_bias, then q_seqlen and kv_seqlen iff the mask type is
\* PADDING or PADDING_CAUSAL, whether or not the caller supplied sequence
\* lengths; its declared results are output, softmax_stat, workspace in training
\* mode and output, workspace otherwise; the lowering returns the declared
\* results without the workspace.
C11_ForwardCallSignature ==
  \A i \in 1..Len(calls) :
    calls[i].dir = "fwd" =>
      LET c == calls[i].call
      IN /\ OperandNames(c) = <<"query", "key", "value">> \o BiasOperand
                                \o SeqlenOperands
         /\ OperandOf(c, "query") = args.query
         /\ OperandOf(c, "key") = args.key
         /\ OperandOf(c, "value") = args.value
         /\ loc.variadic_args[1] => OperandOf(c, "bias") = loc.bias
         /\ PaddingMask => /\ OperandOf(c, "q_seqlen") = loc.q_seqlen
                           /\ OperandOf(c, "kv_seqlen") = loc.kv_seqlen
         /\ ResultNames(c) = IF args.differentiated
                             THEN <<"output", "softmax_stat", "workspace">>
                             ELSE <<"output", "workspace">>
         /\ ReturnNames(calls[i].returns)
              = SubSeq(ResultNames(c), 1, Len(c.result_types) - 1)

\* a differentiated call under a PADDING_CAUSAL mask has been lowered
C11_Witness ==
  /\ pc = "done"
  /\ args.mask_type = "PADDING_CAUSAL"
  /\ args.differentiated
  /\ Len(calls) = 2
  /\ Len(calls[1].call.operands) = 5
  /\ Len(calls[1].returns) = 2

DbiasResult == IF loc.variadic_args[2] THEN <<"grad_bias">> ELSE <<>>

\* C12: the backward custom call's operands are exactly query, key, value,
\* the saved activation, grad_output, then the bias iff has_bias, then the
\* forward output, then q_seqlen and kv_seqlen iff the mask type needs padding;
\* its declared results are grad_query, grad_key, grad_value, then grad_bias iff
\* has_dbias, then one workspace; the lowering returns 4 values iff has_dbias
\* and 3 otherwise, never the workspace.
C12_BackwardCallSignature ==
  \A i \in 1..Len(calls) :
    calls[i].dir = "bwd" =>
      LET c == calls[i].call
      IN /\ OperandNames(c)
              = <<"query", "key", "value", "activation", "grad_output">>
                \o BiasOperand \o <<"fwd_output">> \o SeqlenOperands
         /\ OperandOf(c, "query") = args.query
         /\ OperandOf(c, "key") = args.key
         /\ OperandOf(c, "value") = args.value
         /\ OperandOf(c, "activation") = loc.res[7]
         /\ OperandOf(c, "fwd_output") = loc.res[8]
         /\ loc.variadic_args[1] => OperandOf(c, "bias") = loc.bias
         /\ PaddingMask => /\ OperandOf(c, "q_seqlen") = loc.q_seqlen
                           /\ OperandOf(c, "kv_seqlen") = loc.kv_seqlen
         /\ ResultNames(c) = <<"grad_query", "grad_key", "grad_value">>
                               \o DbiasResult \o <<"workspace">>
         /\ Len(calls[i].returns) = IF loc.variadic_args[2] THEN 4 ELSE 3
         /\ ReturnNames(calls[i].returns)
              = <<"grad_query", "grad_key", "grad_value">> \o DbiasResult

\* a backward call that exports the bias gradient has been lowered
C12_Witness ==
  /\ pc = "done"
  /\ Len(calls) = 2
  /\ calls[2].dir = "bwd"
  /\ loc.variadic_args = <<TRUE, TRUE>>
  /\ Len(calls[2].call.operands) = 7
  /\ Len(calls[2].returns) = 4

\* the kernel-native shape (B, N, T|S, H) of a tensor given in layout l
NativeShape(t, l) == <<BatchOf(t), HeadsOf(t, l), SeqOf(t, l), HeadDimOf(t)>>
\* the permutation C13 names for layout l
PermOf(l) == IF l = BNTH THEN <<0, 1, 2, 3>> ELSE <<0, 2, 1, 3>>
ResultShapes(c, n) == [i \in 1..n |-> c.result_types[i].shape]
ReturnShapes(r, n) == [i \in 1..n |-> r[i].shape]

\* C13: for both layouts, the transpose permutation ((0,2,1,3) for BTNH, the
\* identity for BNTH) applied to the kernel-native result shape (B, N, T|S, H)
\* gives the shape abstract evaluation promises: the forward output has the
\* query's shape, grad_query the query's shape, grad_key the key's shape and
\* grad_value the value's shape.
C13_TransposeRestoresLayout ==
  \A i \in 1..Len(calls) :
    LET c == calls[i].call
        r == calls[i].returns
        l == loc.layout
    IN IF calls[i].dir = "fwd"
       THEN /\ c.result_types[1].shape = NativeShape(args.query, l)
            /\ r[1].shape = [k \in 1..4 |-> c.result_types[1].shape[PermOf(l)[k] + 1]]
            /\ r[1].shape = args.query.shape
            /\ r[1].shape = loc.outputs[1].shape
       ELSE /\ ResultShapes(c, 3)
                 = <<NativeShape(args.query, l), NativeShape(args.key, l),
                     NativeShape(args.value, l)>>
            /\ \A g \in 1..3 :
                 r[g].shape = [k \in 1..4 |-> c.result_types[g].shape[PermOf(l)[k] + 1]]
            /\ ReturnShapes(r, 3)
                 = <<args.query.shape, args.key.shape, args.value.shape>>
            /\ ReturnShapes(r, 3) = ReturnShapes(loc.grads, 3)

\* a BTNH call whose head count, query length and key length all differ from
\* one another where they can has been differentiated
C13_Witness ==
  /\ pc = "done"
  /\ Len(calls) = 2
  /\ loc.layout = BTNH
  /\ HeadsOf(args.query, BTNH) # SeqOf(args.query, BTNH)
  /\ SeqOf(args.key, BTNH) # SeqOf(args.query, BTNH)
  /\ SeqOf(args.key, BTNH) # HeadsOf(args.query, BTNH)

\* the forward bind of the call in progress, and what the claims call its mode
FwdBind == binds[CHOOSE i \in 1..Len(binds) : binds[i].prim = "dot_product_attention_fwd"]
StatShape(t, l) == <<BatchOf(t), HeadsOf(t, l), SeqOf(t, l)>>
StatsOf(vals) == {i \in 1..Len(vals) : vals[i].name = "softmax_stat"}

\* C14: the forward primitive produces a softmax_stat result if and only if
\* is_training is true; when produced, its shape is (batch, heads, q_seq_len)
\* read from the query by the layout and its element type is float32 whatever
\* the input dtype; abstract evaluation and the lowering agree on both.
C14_SoftmaxStat ==
  \A i \in 1..Len(calls) :
    calls[i].dir = "fwd" =>
      LET declared == calls[i].call.result_types
          lowered == calls[i].returns
          abstract == loc.outputs
          stat == Value("softmax_stat", StatShape(args.query, loc.layout), "float32")
      IN /\ FwdBind.is_training = args.differentiated
         /\ StatsOf(declared) # {} <=> FwdBind.is_training
         /\ StatsOf(lowered) # {} <=> FwdBind.is_training
         /\ StatsOf(abstract) # {} <=> FwdBind.is_training
         /\ FwdBind.is_training =>
              /\ lowered[2] = stat
              /\ abstract[2] = stat
              /\ declared[2].shape = stat.shape
              /\ declared[2].dtype = "float32"
              /\ Len(lowered) = 2 /\ Len(abstract) = 2

\* a float16 BNTH call with differing head count and query length has been
\* lowered in training mode
C14_Witness ==
  /\ pc = "fwd_return"
  /\ args.differentiated
  /\ args.query.dtype = "float16"
  /\ loc.layout = BNTH
  /\ HeadsOf(args.query, BNTH) # SeqOf(args.query, BNTH)
  /\ Len(calls[1].returns) = 2

\* the dot-dimension blocks C15 names, and the rest of a configuration
ForwardBlocks == {"bmm1_dot_dimension_numbers", "bmm2_dot_dimension_numbers"}
GradientBlocks ==
  {"bmm1_grad_gemm1_dot_dimension_numbers", "bmm1_grad_gemm2_dot_dimension_numbers",
   "bmm2_grad_gemm1_dot_dimension_numbers", "bmm2_grad_gemm2_dot_dimension_numbers"}
FmhaConfig(c) == c.call.backend_config.cudnn_fmha_backend_config
OtherFields(cfg) ==
  [k \in DOMAIN cfg \ (ForwardBlocks \cup GradientBlocks) |-> cfg[k]]
Envelope(c) ==
  [operation_queue_id |-> c.call.backend_config.operation_queue_id,
   wait_on_operation_queues |-> c.call.backend_config.wait_on_operation_queues]

\* C15: the backend configuration built with is_backward false contains exactly
\* the two forward dot-dimension blocks and none of the four gradient blocks;
\* built with is_backward true it contains the four gradient blocks; every
\* other field (scale, dropout rate, seed, mask-type string, sliding-window
\* length, intermediate shape [batch, heads, q_len, kv_len], is_flash_attention
\* true) is the same in the two directions for the same arguments.
C15_ConfigByDirection ==
  \A i \in 1..Len(calls) :
    LET cfg == FmhaConfig(calls[i])
        l == loc.layout
    IN /\ calls[i].dir = "fwd" =>
            /\ ForwardBlocks \subseteq DOMAIN cfg
            /\ GradientBlocks \cap DOMAIN cfg = {}
       /\ calls[i].dir = "bwd" => GradientBlocks \subseteq DOMAIN cfg
       /\ cfg.fmha_scale = args.scale
       /\ cfg.dropout_rate = args.dropout_rate
       /\ cfg.seed = args.seed
       /\ cfg.mask_type = args.mask_type
       /\ cfg.sliding_window_length
            = IF args.sliding_window_length = NoneObj THEN 0
              ELSE args.sliding_window_length.val
       /\ cfg.intermediate_tensor_shape.dimensions
            = <<ToString(BatchOf(args.query)), ToString(HeadsOf(args.query, l)),
                ToString(SeqOf(args.query, l)), ToString(SeqOf(args.key, l))>>
       /\ cfg.is_flash_attention = TRUE
       /\ \A j \in 1..Len(calls) :
            /\ OtherFields(FmhaConfig(calls[j])) = OtherFields(cfg)
            /\ Envelope(calls[j]) = Envelope(calls[i])

\* a call with a sliding window and dropout has been lowered in both directions
C15_Witness ==
  /\ pc = "done"
  /\ Len(calls) = 2
  /\ calls[1].dir = "fwd" /\ calls[2].dir = "bwd"
  /\ FmhaConfig(calls[2]).sliding_window_length = MaxWindow
  /\ FmhaConfig(calls[2]).dropout_rate > 0

----------------------------------------------------------------------------
(* Claims about the differentiation rules *)

BwdReturned == pc = "done" /\ args.differentiated

\* C16: the backward rule always returns exactly six gradient entries, in the
\* order (query, key, value, bias, q_seqlen, kv_seqlen): entries 1 to 3 are
\* grad_query, grad_key and grad_value; entry 4 is grad_bias iff has_dbias and
\* a no-gradient placeholder otherwise; entries 5 and 6 are always
\* placeholders.
C16_SixGradients ==
  BwdReturned =>
    /\ Len(loc.grads) = 6
    /\ loc.grads[1] = Value("grad_query", args.query.shape, args.query.dtype)
    /\ loc.grads[2] = Value("grad_key", args.key.shape, args.key.dtype)
    /\ loc.grads[3] = Value("grad_value", args.value.shape, args.value.dtype)
    /\ loc.grads[4] = IF loc.variadic_args[2]
                      THEN Value("grad_bias", loc.bias.shape, loc.bias.dtype)
                      ELSE NoGrad
    /\ loc.grads[5] = NoGrad
    /\ loc.grads[6] = NoGrad

\* a backward rule that exports the bias gradient has returned
C16_Witness == BwdReturned /\ loc.variadic_args = <<TRUE, TRUE>>

BindsOf(prim) == {i \in 1..Len(binds) : binds[i].prim = prim}

\* C17: within one forward/backward pair, the backward primitive call receives
\* exactly what the matched forward stage recorded: the same query, key, value,
\* bias, q_seqlen and kv_seqlen, the forward call's softmax_stat as the saved
\* activation and the forward call's output as forward_output, and the same
\* scale, seed, dropout_rate, variadic_args, mask_type, layout and
\* sliding_window_length.
C17_ResidualsReachBackward ==
  \A i \in BindsOf("dot_product_attention_bwd") :
    \E j \in BindsOf("dot_product_attention_fwd") :
      LET bwd == binds[i]
          fwd == binds[j]
          out == calls[1].returns
      IN /\ j < i
         /\ fwd.is_training
         /\ calls[1].dir = "fwd"
         /\ SubSeq(bwd.operands, 1, 6) = fwd.operands
         /\ out[1].name = "output" /\ out[2].name = "softmax_stat"
         /\ bwd.operands[7] = out[2]
         /\ bwd.operands[8] = out[1]
         /\ bwd.operands[9].shape = out[1].shape
         /\ bwd.params = fwd.params
         /\ bwd.params.scale = args.scale
         /\ bwd.params.seed = args.seed
         /\ bwd.params.dropout_rate = args.dropout_rate
         /\ bwd.params.mask_type = args.mask_type
         /\ bwd.params.sliding_window_length = args.sliding_window_length

\* the backward primitive has been bound for a call with a bias and dropout
C17_Witness ==
  /\ pc = "bwd_lowering"
  /\ BindsOf("dot_product_attention_bwd") # {}
  /\ binds[Len(binds)].params.variadic_args[1]
  /\ binds[Len(binds)].params.dropout_rate > 0

----------------------------------------------------------------------------
(* The batching rules of the wrapper primitives *)

MaxBatch == 2      \* the mapped leading axis has size 1..MaxBatch

RECURSIVE Prod(_)
\* math.prod(shape): the element count of a shape
Prod(s) == IF s = <<>> THEN 1 ELSE Head(s) * Prod(Tail(s))
\* shape[-3:] and the starred target *Bs of the shape unpacking
Last3(s) == SubSeq(s, Len(s) - 2, Len(s))
Leading(s) == SubSeq(s, 1, Len(s) - 3)

\* _check_valid_batch_dims(bdims)
_check_valid_batch_dims(bdims) ==
  IF \E i \in 1..Len(bdims) : ~PyEq(bdims[i], IntObj(0)) /\ bdims[i] # NoneObj
  THEN "NotImplementedError: Currently only support batch_dim in [0, None]"
  ELSE "ok"

\* one jnp.reshape(x, to) of the argument named arg
Reshape(arg, t, to) == [arg |-> arg, from |-> t.shape, to |-> to]
\* jnp.reshape raises when the element counts differ: the reshapes of a
\* sequence that are performed, and the error of the first that is not
Performed(plan) ==
  LET bad == {i \in 1..Len(plan) : Prod(plan[i].from) # Prod(plan[i].to)}
      n == IF bad = {} THEN Len(plan)
           ELSE (CHOOSE i \in bad : \A j \in bad : i <= j) - 1
  IN [err |-> IF bad = {} THEN "none" ELSE "TypeError: cannot reshape array",
      done |-> SubSeq(plan, 1, n)]
\* the value of an argument after the reshapes in done
Reshaped(done, arg, t) ==
  IF \E i \in 1..Len(done) : done[i].arg = arg
  THEN Tensor(done[CHOOSE i \in 1..Len(done) : done[i].arg = arg].to, t.dtype)
  ELSE t

\* the keyword parameters the primitives' impl and abstract evaluation require
RequiredParams ==
  {"scale", "seed", "dropout_rate", "variadic_args", "mask_type", "layout",
   "sliding_window_length"}
\* prim.bind(*operands, **params): Python refuses a call that lacks a required
\* keyword
BindParams(params) ==
  IF RequiredParams \subseteq DOMAIN params THEN "none"
  ELSE "TypeError: missing required argument sliding_window_length"

\* what a batching rule did: its exception, the reshapes performed, the
\* primitive bound, the values returned and their batch axes
BatcherResult(e, reshapes, bound, outputs, out_bdims) ==
  [err |-> e, reshapes |-> reshapes, binds |-> bound, outputs |-> outputs,
   out_bdims |-> out_bdims]

\* _dot_product_attention_fwd_batcher
_dot_product_attention_fwd_batcher(batched_args, batch_dims, params, is_training) ==
  LET checked == _check_valid_batch_dims(batch_dims)
      query == batched_args[1]
      key == batched_args[2]
      value == batched_args[3]
      bias == batched_args[4]
      q_seqlen == batched_args[5]
      kv_seqlen == batched_args[6]
      query_bdim == batch_dims[1]
      out_bdims == IF is_training THEN <<query_bdim, query_bdim>> ELSE <<query_bdim>>
      bnth == PyEq(params.layout, EnumValue(BNTH))
      qr == Len(query.shape)
      kr == Len(key.shape)
      Bs == Leading(query.shape)
      N == IF bnth THEN query.shape[qr - 2] ELSE query.shape[qr - 1]
      T == IF bnth THEN query.shape[qr - 1] ELSE query.shape[qr - 2]
      S == IF bnth THEN key.shape[kr - 1] ELSE key.shape[kr - 2]
      B == Prod(Bs)
      has_bias == params.variadic_args[1]
      original_shape == query.shape
      plan ==
        <<Reshape("query", query, <<B>> \o Last3(query.shape)),
          Reshape("key", key, <<B>> \o Last3(key.shape)),
          Reshape("value", value, <<B>> \o Last3(key.shape))>>
        \o (IF has_bias /\ batch_dims[4] # NoneObj
            THEN <<Reshape("bias", bias, <<B, N, T, S>>)>> ELSE <<>>)
        \o (IF has_padding(params.mask_type)
            THEN <<Reshape("q_seqlen", q_seqlen, <<B>>),
                   Reshape("kv_seqlen", kv_seqlen, <<B>>)>>
            ELSE <<>>)
      r == Performed(plan)
      operands ==
        <<Reshaped(r.done, "query", query), Reshaped(r.done, "key", key),
          Reshaped(r.done, "value", value), Reshaped(r.done, "bias", bias),
          Reshaped(r.done, "q_seqlen", q_seqlen),
          Reshaped(r.done, "kv_seqlen", kv_seqlen)>>
      bind == [prim |-> "dot_product_attention_fwd_wrapper",
               operands |-> operands,
               params |-> [scale |-> params.scale, seed |-> params.seed,
                           dropout_rate |-> params.dropout_rate,
                           variadic_args |-> params.variadic_args,
                           mask_type |-> params.mask_type,
                           layout |-> params.layout],
               is_training |-> is_training]
      bound == BindParams(bind.params)
      outputs == _dot_product_attention_fwd_abstract(
                   operands[1], operands[2], params.layout, is_training)
      output == Value(outputs[1].name, original_shape, outputs[1].dtype)
      activation == Value(outputs[2].name, Bs \o <<N, T>>, outputs[2].dtype)
  IN IF checked # "ok" THEN BatcherResult(checked, <<>>, <<>>, <<>>, <<>>)
     ELSE IF r.err # "none" THEN BatcherResult(r.err, r.done, <<>>, <<>>, <<>>)
     ELSE IF bound # "none" THEN BatcherResult(bound, r.done, <<bind>>, <<>>, <<>>)
     ELSE BatcherResult("none", r.done, <<bind>>,
            IF is_training THEN <<output, activation>> ELSE <<output>>, out_bdims)

\* _dot_product_attention_bwd_batcher
_dot_product_attention_bwd_batcher(batched_args, batch_dims, params) ==
  LET checked == _check_valid_batch_dims(batch_dims)
      query == batched_args[1]
      key == batched_args[2]
      value == batched_args[3]
      bias == batched_args[4]
      q_seqlen == batched_args[5]
      kv_seqlen == batched_args[6]
      activation == batched_args[7]
      fwd_output == batched_args[8]
      grad_output == batched_args[9]
      query_bdim == batch_dims[1]
      bnth == PyEq(params.layout, EnumValue(BNTH))
      qr == Len(query.shape)
      kr == Len(key.shape)
      Bs == Leading(query.shape)
      N == IF bnth THEN query.shape[qr - 2] ELSE query.shape[qr - 1]
      T == IF bnth THEN query.shape[qr - 1] ELSE query.shape[qr - 2]
      S == IF bnth THEN key.shape[kr - 1] ELSE key.shape[kr - 2]
      B == Prod(Bs)
      has_bias == params.variadic_args[1]
      has_dbias == params.variadic_args[2]
      original_query_shape == query.shape
      original_key_shape == key.shape
      original_value_shape == value.shape
      original_bias_shape == bias.shape
      plan ==
        <<Reshape("query", query, <<B>> \o Last3(query.shape)),
          Reshape("key", key, <<B>> \o Last3(key.shape)),
          Reshape("value", value, <<B>> \o Last3(key.shape))>>
        \o (IF has_bias /\ batch_dims[4] # NoneObj
            THEN <<Reshape("bias", bias, <<B, N, T, S>>)>> ELSE <<>>)
        \o (IF has_padding(params.mask_type)
            THEN <<Reshape("q_seqlen", q_seqlen, <<B>>),
                   Reshape("kv_seqlen", kv_seqlen, <<B>>)>>
            ELSE <<>>)
        \o <<Reshape("activation", activation, <<B, N, T>>),
             Reshape("fwd_output", fwd_output, <<B>> \o Last3(query.shape)),
             Reshape("grad_output", grad_output, <<B>> \o Last3(query.shape))>>
      r == Performed(plan)
      operands ==
        <<Reshaped(r.done, "query", query), Reshaped(r.done, "key", key),
          Reshaped(r.done, "value", value), Reshaped(r.done, "bias", bias),
          Reshaped(r.done, "q_seqlen", q_seqlen),
          Reshaped(r.done, "kv_seqlen", kv_seqlen),
          Reshaped(r.done, "activation", activation),
          Reshaped(r.done, "fwd_output", fwd_output),
          Reshaped(r.done, "grad_output", grad_output)>>
      bind == [prim |-> "dot_product_attention_bwd_wrapper",
               operands |-> operands,
               params |-> [scale |-> params.scale, seed |-> params.seed,
                           dropout_rate |-> params.dropout_rate,
                           variadic_args |-> params.variadic_args,
                           mask_type |-> params.mask_type,
                           layout |-> params.layout],
               is_training |-> TRUE]
      bound == BindParams(bind.params)
      grads == _dot_product_attention_bwd_abstract(
                 operands[1], operands[2], operands[3], operands[4],
                 params.variadic_args)
      dqkv == <<Value(grads[1].name, original_query_shape, grads[1].dtype),
                Value(grads[2].name, original_key_shape, grads[2].dtype),
                Value(grads[3].name, original_value_shape, grads[3].dtype)>>
      out_bdims == <<query_bdim, query_bdim, query_bdim>>
  IN IF checked # "ok" THEN BatcherResult(checked, <<>>, <<>>, <<>>, <<>>)
     ELSE IF r.err # "none" THEN BatcherResult(r.err, r.done, <<>>, <<>>, <<>>)
     ELSE IF bound # "none" THEN BatcherResult(bound, r.done, <<bind>>, <<>>, <<>>)
     ELSE IF has_dbias
     THEN BatcherResult("none", r.done, <<bind>>,
            Append(dqkv, Value(grads[4].name, original_bias_shape, grads[4].dtype)),
            Append(out_bdims, batch_dims[4]))
     ELSE BatcherResult("none", r.done, <<bind>>, dqkv, out_bdims)

\* the batch axes vmap hands to a rule: not mapped, axis 0, axis 1
BatchDims == {NoneObj, IntObj(0), IntObj(1)}
\* a per-example value with the mapped axis of size K at batch axis d
Batched(t, K, d) ==
  IF d = NoneObj THEN t
  ELSE Tensor(SubSeq(t.shape, 1, d.val) \o <<K>>
                \o SubSeq(t.shape, d.val + 1, Len(t.shape)), t.dtype)
\* the per-example bias: the zeros(0) placeholder, a full bias, or one that is
\* broadcast over the batch
ExampleBias(kind, B, N, T, S) ==
  IF kind = "none" THEN Tensor(<<0>>, "float16")
  ELSE IF kind = "full" THEN Tensor(<<B, N, T, S>>, "float16")
  ELSE Tensor(<<1, N, T, S>>, "float16")
\* the per-example operands dot_product_attention binds, and the residuals
ExampleArgs(l, B, N, T, S, bk, mt) ==
  <<Tensor(QShape(l, B, T, N, HeadDimMultiple), "float16"),
    Tensor(QShape(l, B, S, N, HeadDimMultiple), "float16"),
    Tensor(QShape(l, B, S, N, HeadDimMultiple), "float16"),
    ExampleBias(bk, B, N, T, S),
    IF has_padding(mt) THEN Tensor(<<B>>, "int32") ELSE Tensor(<<0>>, "float16"),
    IF has_padding(mt) THEN Tensor(<<B>>, "int32") ELSE Tensor(<<0>>, "float16")>>
ExampleResiduals(l, B, N, T) ==
  <<Tensor(<<B, N, T>>, "float32"),
    Tensor(QShape(l, B, T, N, HeadDimMultiple), "float16"),
    Tensor(QShape(l, B, T, N, HeadDimMultiple), "float16")>>
ExampleParams(l, ex, bk, mt, w) ==
  [scale |-> 1, seed |-> 42, dropout_rate |-> 0,
   variadic_args |->
     <<bk # "none",
       IF bk = "none" THEN FALSE
       ELSE should_export_dbias(ex[4].shape, ex[1].shape, l)>>,
   mask_type |-> mt, layout |-> EnumValue(l), sliding_window_length |-> w]

\* vmap calls a batching rule with the values and batch axes of one bind
BatchCall(dir, ex, K, dims, params, is_training) ==
  [dir |-> dir, example |-> ex, K |-> K,
   batched_args |-> [i \in 1..Len(ex) |-> Batched(ex[i], K, dims[i])],
   batch_dims |-> dims, params |-> params, is_training |-> is_training]

\* vmap reaches a bind of a wrapper primitive with mapped operands
Vmap ==
  /\ pc = "idle"
  /\ \E l \in Layouts, K \in 1..MaxBatch, B \in Extents, N \in Extents,
        T \in {MaxExtent}, S \in Extents, qd \in BatchDims, kvd \in BatchDims,
        bk \in {"none", "full", "broadcast"}, bd \in {NoneObj, IntObj(0)},
        mt \in {"NO_MASK", "PADDING"}, sd \in {NoneObj, IntObj(0)},
        w \in {NoneObj, IntObj(MaxWindow)}, is_training \in BOOLEAN,
        dir \in {"fwd", "bwd"} :
       /\ bk = "none" => bd = NoneObj
       /\ mt = "NO_MASK" => sd = NoneObj
       /\ dir = "bwd" => is_training
       /\ LET fwd == ExampleArgs(l, B, N, T, S, bk, mt)
              ex == IF dir = "fwd" THEN fwd
                    ELSE fwd \o ExampleResiduals(l, B, N, T)
              dims == IF dir = "fwd" THEN <<qd, kvd, kvd, bd, sd, sd>>
                      ELSE <<qd, kvd, kvd, bd, sd, sd, qd, qd, qd>>
          IN args' = BatchCall(dir, ex, K, dims,
                               ExampleParams(l, ex, bk, mt, w), is_training)
  /\ pc' = "batcher"
  /\ UNCHANGED <<loc, err, binds, calls, chk, part>>

BatcherReturn(r) ==
  /\ loc' = r
  /\ binds' = r.binds
  /\ err' = r.err
  /\ pc' = IF r.err = "none" THEN "done" ELSE "raised"
  /\ UNCHANGED <<args, calls, chk, part>>

\* batching.primitive_batchers[_dot_product_attention_fwd_p_wrapper]
BatchFwd ==
  /\ pc = "batcher"
  /\ args.dir = "fwd"
  /\ BatcherReturn(_dot_product_attention_fwd_batcher(
                     args.batched_args, args.batch_dims, args.params,
                     args.is_training))

\* batching.primitive_batchers[_dot_product_attention_bwd_p_wrapper]
BatchBwd ==
  /\ pc = "batcher"
  /\ args.dir = "bwd"
  /\ BatcherReturn(_dot_product_attention_bwd_batcher(
                     args.batched_args, args.batch_dims, args.params))

InitBatch ==
  /\ pc = "idle" /\ args = Null /\ loc = Null /\ err = "none"
  /\ binds = <<>> /\ calls = <<>>
  /\ chk = NoCheck
  /\ part = NoPart

NextBatch ==
  \/ Vmap
  \/ BatchFwd
  \/ BatchBwd

SpecBatch == InitBatch /\ [][NextBatch]_vars

----------------------------------------------------------------------------
(* Claims about the batching rules *)

BatcherFinished == pc \in {"done", "raised"}
LayoutOfCall == IF args.params.layout.val = 1 THEN BNTH ELSE BTNH
Axis0 == IntObj(0)
InvalidAxis == \E i \in 1..Len(args.batch_dims) : args.batch_dims[i] \notin {Axis0, NoneObj}
\* the operands the rule reshapes are all mapped at axis 0, the per-example
\* bias is not a broadcast one, and no other operand is mapped
MappedAtAxis0 ==
  /\ \A i \in 1..3 : args.batch_dims[i] = Axis0
  /\ args.batch_dims[4] = IF args.params.variadic_args[1] THEN Axis0 ELSE NoneObj
  /\ args.params.variadic_args[1] => args.example[4].shape[1] = args.example[1].shape[1]
  /\ \A i \in 5..6 :
       args.batch_dims[i] = IF has_padding(args.params.mask_type) THEN Axis0 ELSE NoneObj
  /\ \A i \in 7..Len(args.batch_dims) : args.batch_dims[i] = Axis0
OutShapes == [i \in 1..Len(loc.outputs) |-> loc.outputs[i].shape]
InShape(i) == args.batched_args[i].shape

\* C18 as stated: the batching rules reject any batch axis other than 0 or None
\* with an error before any reshape or dispatch; otherwise, for inputs batched
\* at axis 0, flatten-call-unflatten is shape-preserving: the forward output
\* has the original batched query shape, softmax_stat the shape (leading
\* dims..., N, T), the backward gradients the original batched query, key,
\* value (and bias when has_dbias) shapes, and the output batch axis is the
\* query's.
C18_Original ==
  BatcherFinished =>
    /\ InvalidAxis =>
         /\ err = "NotImplementedError: Currently only support batch_dim in [0, None]"
         /\ loc.reshapes = <<>>
         /\ binds = <<>>
    /\ (~InvalidAxis /\ MappedAtAxis0) =>
         /\ err = "none"
         /\ \A i \in 1..Len(loc.out_bdims) : loc.out_bdims[i] = args.batch_dims[1]
         /\ IF args.dir = "fwd"
            THEN OutShapes
                   = IF args.is_training
                     THEN <<InShape(1),
                            <<args.K>> \o StatShape(args.example[1], LayoutOfCall)>>
                     ELSE <<InShape(1)>>
            ELSE OutShapes
                   = <<InShape(1), InShape(2), InShape(3)>>
                     \o (IF args.params.variadic_args[2] THEN <<InShape(4)>> ELSE <<>>)

\* the backward rule was called with query, key, value and the residuals mapped
\* at axis 0 over K instances, an unmapped bias, and has_dbias true
C19_Case ==
  /\ BatcherFinished
  /\ args.dir = "bwd"
  /\ \A i \in {1, 2, 3, 7, 8, 9} : args.batch_dims[i] = Axis0
  /\ args.batch_dims[4] = NoneObj
  /\ \A i \in 5..6 :
       args.batch_dims[i] = IF has_padding(args.params.mask_type) THEN Axis0 ELSE NoneObj
  /\ args.params.variadic_args = <<TRUE, TRUE>>

\* C19 as stated: when the backward primitive is batched over a leading axis of
\* size K on query, key, value and the saved residuals while the bias is
\* unbatched and has_dbias is true, a bias gradient is reported for each of
\* the K instances, that of the single-example call on the instance: it has
\* the mapped axis of size K and, per instance, the shape of the bias; it is
\* not one value reported as unbatched.
C19_Original ==
  C19_Case =>
    /\ err = "none"
    /\ Len(loc.outputs) = 4
    /\ loc.out_bdims[4] = Axis0
    /\ loc.outputs[4].shape = <<args.K>> \o args.example[4].shape

----------------------------------------------------------------------------
(* Claims about the derived shardings *)

\* the sharding check accepted the assignment
Accepted == part.pc \in {"partition", "done", "sharded_impl"}
Partitioned == part.pc \in {"done", "sharded_impl"}
\* the spec of operand i as the data model defines it: one label per axis
SpecOfOperand(i) ==
  LET a == part.arg_shapes[i]
  IN a.sharding.spec \o [k \in 1..(a.ndim - Len(a.sharding.spec)) |-> NoLabel]
ResultSpecs == [i \in 1..Len(part.out_shardings) |-> part.out_shardings[i].spec]

\* C20: for every sharding assignment the sharding check accepts, the forward
\* output takes the query's spec; grad_query takes the query's spec, grad_key
\* and grad_value the key's spec, and grad_bias the bias's spec, present iff
\* has_dbias; there are as many result shardings as results of the primitive (1
\* or 2 forward, 3 or 4 backward); the operand shardings are passed through
\* unchanged.
C20_ResultShardings ==
  Accepted =>
    /\ IF part.dir = "fwd"
       THEN /\ ResultSpecs[1] = SpecOfOperand(1)
            /\ Len(ResultSpecs) = IF part.is_training THEN 2 ELSE 1
       ELSE /\ SubSeq(ResultSpecs, 1, 3)
                 = <<SpecOfOperand(1), SpecOfOperand(2), SpecOfOperand(2)>>
            /\ Len(ResultSpecs) = IF part.variadic_args[2] THEN 4 ELSE 3
            /\ part.variadic_args[2] => ResultSpecs[4] = SpecOfOperand(4)
    /\ \A i \in 1..Len(part.out_shardings) : part.out_shardings[i].kind = "NamedSharding"
    /\ Partitioned =>
         part.arg_shardings = [i \in 1..Len(part.arg_shapes) |-> part.arg_shapes[i].sharding]

\* a backward partition with a batch-sharded query and an exported bias
\* gradient has been accepted
C20_Witness ==
  /\ part.pc = "sharded_impl"
  /\ part.dir = "bwd"
  /\ part.variadic_args[2]
  /\ part.arg_shapes[1].sharding.spec = <<"dp">>
  /\ Len(part.out_shardings) = 4

----------------------------------------------------------------------------
(* Claims about the sharding check of the bias *)

HasBias == part.variadic_args[1]
BiasSpec == SpecOfOperand(4)
BiasChecked == Sharded /\ HasBias /\ Len(part.arg_shapes[4].sharding.spec) <= 4

QueryPasses == QKVSpecsEqual /\ QuerySpec[2] = NoLabel /\ QuerySpec[4] = NoLabel
BiasRejected ==
  /\ part.pc = "raised"
  /\ part.err \in
       {"ValueError: Query and bias should have same sharding on batch and num_head dim.",
        "ValueError: Sharding on bias sequence dim is not allowed."}

----------------------------------------------------------------------------
(* Claims about the entry checks of dot_product_attention *)

PaddingError == "ValueError: Require q_seqlen and kv_seqlen to generate padding mask"
SeqlenMissing == IsNone(args.q_seqlen) \/ IsNone(args.kv_seqlen)
\* the exceptions of the steps that precede the padding check
BeforePadding ==
  {"RuntimeError: cuDNN is not detected.",
   "RuntimeError: Require at least Ampere arch to run",
   "ValueError: Unsupported qkv_layout"}
UpToPadding ==
  {"check_cudnn_version", "check_compute_capability", "normalize_layout",
   "check_padding", "raised"}

\* C22: a call with mask_type PADDING or PADDING_CAUSAL and q_seqlen or
\* kv_seqlen missing never gets past the padding check: it raises the
\* configuration error (unless the environment or layout check raised first),
\* with no shape validation and no dispatch; with any other mask type the
\* missing sequence lengths never raise that error.
C22_PaddingNeedsSeqlens ==
  (InCall /\ SeqlenMissing) =>
    IF PaddingMask
    THEN /\ pc \in UpToPadding
         /\ binds = <<>> /\ calls = <<>>
         /\ pc = "raised" => err \in BeforePadding \cup {PaddingError}
    ELSE err # PaddingError

\* a PADDING_CAUSAL call with only kv_seqlen missing has been refused
C22_Witness ==
  /\ pc = "raised" /\ err = PaddingError
  /\ args.mask_type = "PADDING_CAUSAL"
  /\ ~IsNone(args.q_seqlen) /\ IsNone(args.kv_seqlen)

----------------------------------------------------------------------------
(* Claims about the layout of a call *)

AsBTNH == {<<"B", "T", "N", "H">>, <<"B", "S", "N", "H">>}
AsBNTH == {<<"B", "N", "T", "H">>, <<"B", "N", "S", "H">>}
LayoutError == "ValueError: Unsupported qkv_layout"
BeforeLayout == {"check_cudnn_version", "check_compute_capability", "normalize_layout"}
PostLayoutCheck == PostVariadic \cup {"variadic_args"}
\* the layout string is one of the four names, in any letter case, and the
\* call holds the layout it names; any other string is refused
LayoutNormalized ==
  /\ pc \notin BeforeLayout \cup {"raised"} =>
       /\ Upper(args.qkv_layout) \in AsBTNH \cup AsBNTH
       /\ loc.layout = IF Upper(args.qkv_layout) \in AsBTNH THEN BTNH ELSE BNTH
  /\ Upper(args.qkv_layout) \notin AsBTNH \cup AsBNTH =>
       /\ pc \in BeforeLayout \cup {"raised"}
       /\ pc = "raised" => err \in BeforePadding
  /\ (pc = "raised" /\ err = LayoutError) =>
       Upper(args.qkv_layout) \notin AsBTNH \cup AsBNTH
\* has_dbias as the call's layout defines it
DbiasUnder(l) ==
  /\ loc.variadic_args[1]
  /\ loc.bias.shape[1] = 1
  /\ loc.bias.shape[2] = HeadsOf(args.query, l)
\* validation, has_dbias, backend configuration and lowering read layout l
LayoutUsedThroughout(l) ==
  /\ (pc \in PostLayoutCheck /\ ~IsNone(loc.bias) /\ Len(loc.bias.shape) = 4) =>
       /\ loc.bias.shape[3] = SeqOf(args.query, l)
       /\ loc.bias.shape[4] = SeqOf(args.key, l)
  /\ pc \in PostVariadic => (loc.variadic_args[2] <=> DbiasUnder(l))
  /\ \A i \in 1..Len(calls) :
       /\ FmhaConfig(calls[i]).intermediate_tensor_shape.dimensions
            = <<ToString(BatchOf(args.query)), ToString(HeadsOf(args.query, l)),
                ToString(SeqOf(args.query, l)), ToString(SeqOf(args.key, l))>>
       /\ calls[i].call.result_types[1].shape = NativeShape(args.query, l)

\* C23 as stated: layout normalization accepts exactly BTNH, BNTH, BSNH and
\* BNSH in any letter case, maps BSNH to BTNH and BNSH to BNTH and raises for
\* every other string; validation, the has_dbias computation, the backend
\* configuration and the lowering of one call all read the same layout.
C23_Original ==
  InCall => (LayoutNormalized /\ LayoutUsedThroughout(loc.layout))

----------------------------------------------------------------------------
(* Claims about the dot-dimension numbers *)

\* the axes of the operands the roles name: Q and dO in the query layout, K
\* and V in the key layout, P and dP as (B, N, T, S)
QueryAxes(l) == LayoutName(l)
KeyAxes(l) == Replace(LayoutName(l), "T", "S")
ScoreAxes == <<"B", "N", "T", "S">>
\* the six roles: lhs, rhs, and the two free axes of the documented result
Role(lhs, rhs, free) == [lhs |-> lhs, rhs |-> rhs, free |-> free]
Roles(l) ==
  [key \in {DotKeys[i] : i \in 1..6} |->
     CASE key = DotKeys[1] -> Role(QueryAxes(l), KeyAxes(l), <<"T", "S">>)  \* Q @ K -> P
       [] key = DotKeys[2] -> Role(ScoreAxes, KeyAxes(l), <<"T", "H">>)     \* P @ V -> O
       [] key = DotKeys[3] -> Role(ScoreAxes, QueryAxes(l), <<"S", "H">>)   \* dP @ Q -> dK
       [] key = DotKeys[4] -> Role(ScoreAxes, KeyAxes(l), <<"T", "H">>)     \* dP @ K -> dQ
       [] key = DotKeys[5] -> Role(ScoreAxes, QueryAxes(l), <<"S", "H">>)   \* P @ dO -> dV
       [] key = DotKeys[6] -> Role(QueryAxes(l), KeyAxes(l), <<"T", "S">>)] \* dO @ V -> dP
\* the extent of the axis called name in this call
ExtentOf(name, l) ==
  CASE name = "B" -> BatchOf(args.query)
    [] name = "N" -> HeadsOf(args.query, l)
    [] name = "T" -> SeqOf(args.query, l)
    [] name = "S" -> SeqOf(args.key, l)
    [] name = "H" -> HeadDimOf(args.query)
\* the axis a written dimension number selects
AxisAt(axes, number) == axes[(CHOOSE i \in 0..3 : ToString(i) = number) + 1]
Named(axes, numbers) == [i \in 1..Len(numbers) |-> AxisAt(axes, numbers[i])]
FreeAxes(axes, block_batch, block_contracting) ==
  {a \in {axes[i] : i \in 1..4} :
     /\ a \notin {Named(axes, block_batch)[i] : i \in 1..Len(block_batch)}
     /\ a # AxisAt(axes, block_contracting[1])}

\* C24: in every emitted call, for each dot-dimension block present, the lhs
\* and rhs contracting axes are the same axis of the two operands of the role
\* and have equal extent, the lhs and rhs batch axes are the batch and
\* head-count axes of their operand in that order, and the free axes that
\* remain are those of the documented result (P, O, dK, dQ, dV, dP).
C24_DotNumbersConsistent ==
  \A i \in 1..Len(calls) :
    LET cfg == FmhaConfig(calls[i])
        l == loc.layout
    IN \A key \in DOMAIN cfg \cap (ForwardBlocks \cup GradientBlocks) :
         LET r == Roles(l)[key]
             b == cfg[key]
             lc == AxisAt(r.lhs, b.lhs_contracting_dimensions[1])
             rc == AxisAt(r.rhs, b.rhs_contracting_dimensions[1])
         IN /\ Len(b.lhs_contracting_dimensions) = 1
            /\ Len(b.rhs_contracting_dimensions) = 1
            /\ lc = rc
            /\ ExtentOf(lc, l) = ExtentOf(rc, l)
            /\ Named(r.lhs, b.lhs_batch_dimensions) = <<"B", "N">>
            /\ Named(r.rhs, b.rhs_batch_dimensions) = <<"B", "N">>
            /\ FreeAxes(r.lhs, b.lhs_batch_dimensions, b.lhs_contracting_dimensions)
                 = {r.free[1]}
            /\ FreeAxes(r.rhs, b.rhs_batch_dimensions, b.rhs_contracting_dimensions)
                 = {r.free[2]}

\* a BTNH call with a query longer than the key and one head has been lowered
\* in both directions, and its six blocks have been written
C24_Witness ==
  /\ pc = "done"
  /\ Len(calls) = 2
  /\ loc.layout = BTNH
  /\ SeqOf(args.query, BTNH) = 2 * MaxExtent
  /\ SeqOf(args.key, BTNH) = 2
  /\ HeadsOf(args.query, BTNH) = 1
  /\ ForwardBlocks \subseteq DOMAIN FmhaConfig(calls[1])
  /\ GradientBlocks \subseteq DOMAIN FmhaConfig(calls[2])

----------------------------------------------------------------------------
(* Claims about the flash-attention check of a differentiated call *)

FlashError == "NotImplementedError: unsupported sequence length or head dim"
HeadDimSupported ==
  HeadDimOf(args.query) <= MaxHeadDim /\ HeadDimOf(args.query) % HeadDimMultiple = 0
OddLength ==
  \/ SeqOf(args.query, loc.layout) % 2 = 1
  \/ SeqOf(args.key, loc.layout) % 2 = 1
\* the call came with neither bias nor mask and has reached the check of
\* _dot_product_attention_fwd_rule or gone past it
UnbiasedTraining ==
  /\ InCall /\ args.differentiated
  /\ IsNone(args.bias) /\ IsNone(args.mask)
  /\ pc \in PostVariadic \cup {"raised"}

\* C25 as stated: under differentiation, for a call with neither bias nor mask
\* (has_bias false), a supported head_dim and an odd query or key/value
\* sequence length, check_is_flash_attention invoked by
\* _dot_product_attention_fwd_rule does not raise.
C25_Original ==
  (UnbiasedTraining /\ HeadDimSupported /\ OddLength) =>
    /\ ~loc.variadic_args[1]
    /\ err # FlashError

----------------------------------------------------------------------------
(* Claims about has_dbias *)

\* the position of the head-count axis of query in the call's layout (1-based)
HeadCountAxis == IF loc.layout = BNTH THEN 2 ELSE 3

\* C26 as stated: has_dbias is computed by comparing the bias's head extent
\* with the query's head-count axis as the call's layout determines it (axis 2
\* of BTNH, axis 1 of BNTH, counted from 0), never with the sequence axis of a
\* BNTH query.
C26_Original ==
  (InCall /\ pc \in PostVariadic /\ loc.variadic_args[1]) =>
    (loc.variadic_args[2] <=>
       /\ loc.bias.shape[1] = 1
       /\ loc.bias.shape[2] = args.query.shape[HeadCountAxis])

----------------------------------------------------------------------------
(* Claims about the parameters the batching rules pass on *)

\* the rule got as far as binding the wrapper primitive
BindAttempted == BatcherFinished /\ Len(binds) = 1

\* C27 as stated: the call the forward and backward batching rules dispatch
\* carries every parameter of the batched call unchanged: scale, seed,
\* dropout_rate, variadic_args, mask_type, layout and sliding_window_length
\* (and is_training in the forward rule); none is dropped or defaulted.
C27_Original ==
  BindAttempted =>
    /\ DOMAIN binds[1].params = DOMAIN args.params
    /\ \A name \in DOMAIN args.params : binds[1].params[name] = args.params[name]
    /\ args.dir = "fwd" => binds[1].is_training = args.is_training

----------------------------------------------------------------------------
(* Claims about the length of the derived specs *)

\* the number of axes of result i of the partitioned primitive: output and the
\* gradients have the rank of their operand, softmax_stat one axis less than
\* query
ResultRank(i) ==
  IF part.dir = "fwd" THEN (IF i = 1 THEN part.arg_shapes[1].ndim
                            ELSE part.arg_shapes[1].ndim - 1)
  ELSE part.arg_shapes[i].ndim

\* C28 as stated: every sharding spec the partitioner produces has exactly one
\* entry per axis of the tensor it describes; the training-mode softmax_stat
\* sharding has the query's batch label on the batch axis, the query's
\* head-count label on the head axis and no label on the sequence axis.
C28_Original ==
  Accepted =>
    /\ \A i \in 1..Len(ResultSpecs) : Len(ResultSpecs[i]) = ResultRank(i)
    /\ (part.dir = "fwd" /\ part.is_training) =>
         ResultSpecs[2] = <<QuerySpec[1], QuerySpec[HeadsAxis], NoLabel>>

----------------------------------------------------------------------------
(* Claims about the reduction axis of the bias gradient *)

\* the exceptions sharded_impl can end in
ImplErrors ==
  {"AttributeError: 'NoneType' object has no attribute 'spec'",
   "IndexError: tuple index out of range",
   "NameError: unbound axis name"}
\* a backward partition with has_dbias whose query has no label on its batch
\* axis has ended
UnshardedBatchEnded ==
  /\ part.pc \in {"done", "raised"}
  /\ part.dir = "bwd" /\ part.variadic_args[2]
  /\ ~BatchSharded

\* C29 as stated: with has_dbias true, for every accepted sharding in which
\* the query's batch axis carries no label (replicated query, empty spec, or
\* only the head-count axis sharded), the partitioned backward implementation
\* returns a bias gradient equal to the shard-local one and issues no
\* reduction over an undefined or missing axis.
C29_Original ==
  UnshardedBatchEnded =>
    /\ part.err \notin ImplErrors
    /\ part.pc = "done" => \A d \in Devices : part.grads[d][4] = LocalGrads(d)[4]

----------------------------------------------------------------------------
(* Claims about the reshapes of the batching rules *)

ReshapeError == "TypeError: cannot reshape array"
\* query, key, value and a bias that is present are mapped at axis 0, the
\* sequence lengths too when the mask type needs them, and so are the residuals
BiasMappedAtAxis0 ==
  /\ args.params.variadic_args[1]
  /\ \A i \in 1..4 : args.batch_dims[i] = Axis0
  /\ \A i \in 5..6 :
       args.batch_dims[i] = IF has_padding(args.params.mask_type) THEN Axis0 ELSE NoneObj
  /\ \A i \in 7..Len(args.batch_dims) : args.batch_dims[i] = Axis0
\* the reshape target of the bias: (flattened batch, N, T, S)
BiasTarget ==
  <<args.K * BatchOf(args.example[1]), HeadsOf(args.example[1], LayoutOfCall),
    SeqOf(args.example[1], LayoutOfCall), SeqOf(args.example[2], LayoutOfCall)>>

\* C30 as stated: for per-example inputs batched along axis 0 in query, key,
\* value and bias, every reshape of the batching rules preserves the element
\* count; the batched bias is reshaped to (flattened batch, N, T, S) with as
\* many elements as it has, also when the per-example bias is a broadcast one.
C30_Original ==
  (BatcherFinished /\ BiasMappedAtAxis0) =>
    /\ err # ReshapeError
    /\ \A i \in 1..Len(loc.reshapes) :
         Prod(loc.reshapes[i].from) = Prod(loc.reshapes[i].to)
    /\ \E i \in 1..Len(loc.reshapes) :
         /\ loc.reshapes[i].arg = "bias"
         /\ loc.reshapes[i].from = InShape(4)
         /\ loc.reshapes[i].to = BiasTarget

====
